---- MODULE Spec2Model ----
(***************************************************************************)
(* A model of mindstone: the gate network (control/gatenetwork.py,         *)
(* control/graph.py), the gate-to-driver interface (control/interface.py,  *)
(* core/transactions.py) and the driver's request dispatch                 *)
(* (embedded/driver.py).                                                   *)
(*                                                                         *)
(* Python values are tagged pairs <<type, value>>, so that values of       *)
(* different Python types can be compared.  A dict is a function from its  *)
(* keys to its values.  Payload dicts are mutable and shared by reference  *)
(* in the code, so every flow has a heap of dicts and the resolution       *)
(* state holds references (indices into that heap).                        *)
(***************************************************************************)
EXTENDS Integers, Sequences, FiniteSets, TLC

VARIABLES
    graph,              \* DirectedGraph: gate key -> set of successor keys
    conditional_edges,  \* GateNetwork._conditional_edges: <<from, to>> -> <<key, evaluator, value>>
    handlers,           \* Gate._handler of every gate
    gate_client,        \* DriverInterface.client of every gate (None or a label)
    requests,           \* RequestsWrapper.requests of every gate
    is_busy,            \* GateNetwork.is_busy
    generation_count,   \* GateNetwork.generation_count
    fallbacks,          \* the add_edge calls with a fallback that built the network
    flow,               \* per calling flow: position in _on_receive/run/_resolve and its locals
    last,               \* the arguments and the result of the last run that returned
    components,         \* _Driver.components: name -> kind of component
    routines,           \* _Driver.routines: name -> <<entity, executor, operation, kwargs, interval>>
    driver_reply,       \* what the driver's _on_receive last did for a request batch
    served,             \* number of request batches the driver has been handed
    tx,                 \* a Transaction object and the last operation on it
    clients,            \* GateNetwork._clients: label -> client object
    call,               \* the last call that built or changed the network, and its outcome
    scheduler           \* _RoutinesThread: its position in run and its locals

vars == <<graph, conditional_edges, handlers, gate_client, requests, is_busy,
          generation_count, fallbacks, flow, last, components, routines,
          driver_reply, served, tx, clients, call, scheduler>>

netVars == <<graph, conditional_edges, handlers, gate_client>>
driverVars == <<components, routines, driver_reply, served>>

----------------------------------------------------------------------------
(* Bounds of the model *)

MaxGen == 7         \* generations processed over the life of a network
MaxQueue == 2       \* requests a gate's queue can hold
MaxServed == 2      \* request batches handed to the driver
MaxBatch == 2       \* requests in one batch
MaxCalls == 3       \* calls that change the gates and edges of a network
MaxTicks == 6       \* ticks of the clock the routines thread is followed for
MaxAdvance == 2     \* ticks that pass between two passes of the routines thread

----------------------------------------------------------------------------
(* Python values *)

None == <<"none", 0>>
IntV(n) == <<"int", n>>
FloatV(n) == <<"float", n>>
StrV(s) == <<"str", s>>
DictV(m) == <<"dict", m>>
ListV(s) == <<"list", s>>
TypeOf(v) == v[1]
Raise(e) == <<"raise", e>>
IsRaise(v) == v[1] = "raise"

EmptyDict == [k \in {} |-> None]
Dict1(k, v) == [j \in {k} |-> v]

\* dict.update: the keys of both, the values of b winning
DictUpdate(a, b) == [k \in (DOMAIN a) \cup (DOMAIN b) |-> IF k \in DOMAIN b THEN b[k] ELSE a[k]]

\* the permutations of a finite set: the orders in which a Python set can be iterated
Orders(S) == {s \in [1..Cardinality(S) -> S] : \A i, j \in 1..Cardinality(S) : i # j => s[i] # s[j]}

\* an insertion-ordered dict is a sequence of <<key, value>> pairs with distinct keys
Keys(od) == {od[i][1] : i \in 1..Len(od)}
IndexOf(od, k) == CHOOSE i \in 1..Len(od) : od[i][1] = k
Lookup(od, k) == od[IndexOf(od, k)][2]

----------------------------------------------------------------------------
(* core/utils.py *)

\* TLC's strings have no parts: the proper substrings there are among the keys
\* and the string values of the model, for Python's test  key in "..."
KnownSubstrings ==
    {<<"b", "xb">>, <<"x", "xb">>, <<"x", "xyz">>, <<"y", "xyz">>, <<"z", "xyz">>}
IsSubstring(key, s) == key = s \/ <<key, s>> \in KnownSubstrings

\* a route such as "a.b" is held as the sequence of its segments, <<"a", "b">>.
\* The test  key not in mapping  is made of whatever mapping is: of a dict its
\* keys, of a str its substrings, of a list or tuple its items, and of a value
\* that is no container it raises TypeError; so does mapping[key] of a str, a
\* list or a tuple that passed the test.
RECURSIVE _get_nested_util(_, _)
_get_nested_util(route, mapping) ==
    LET key == Head(route) IN
    CASE TypeOf(mapping) = "dict" ->
            IF key \notin DOMAIN mapping[2] THEN None
            ELSE IF Len(Tail(route)) = 0 THEN mapping[2][key]
            ELSE _get_nested_util(Tail(route), mapping[2][key])
      [] TypeOf(mapping) = "str" ->
            IF IsSubstring(key, mapping[2]) THEN Raise("TypeError") ELSE None
      [] TypeOf(mapping) \in {"list", "tuple"} ->
            IF \E i \in 1..Len(mapping[2]) : mapping[2][i] = <<"str", key>>
            THEN Raise("TypeError") ELSE None
      [] OTHER -> Raise("TypeError")

get_nested(route, mapping) == _get_nested_util(route, DictV(mapping))

----------------------------------------------------------------------------
(* control/graph.py *)

in_neighbors(g, key) == {k \in DOMAIN g : key \in g[k]}
out_neighbors(g, key) == g[key]
isolated(g) == {k \in DOMAIN g : in_neighbors(g, k) = {} /\ out_neighbors(g, k) = {}}

add_node(g, key) == [k \in (DOMAIN g) \cup {key} |-> IF k = key THEN {} ELSE g[k]]

\* DirectedGraph.add_edge: the graph afterwards and the exception raised, if any
graph_add_edge(g, from_key, to_key) ==
    IF from_key = to_key THEN [exc |-> "ValueError", graph |-> g]
    ELSE IF from_key \notin DOMAIN g THEN [exc |-> "KeyError", graph |-> g]
    ELSE [exc |-> "none", graph |-> [g EXCEPT ![from_key] = @ \cup {to_key}]]

----------------------------------------------------------------------------
(* core/transactions.py *)

TupleV(s) == <<"tuple", s>>
Bytes(x) == <<"bytes", x>>
Junk == <<"junk", 0>>

\* _structures: the fields of a structure and the type each must have
_structures(structure) ==
    IF structure = "server"
    THEN [received_time |-> "float", sent_time |-> "float", response |-> "dict", error |-> "str"]
    ELSE [input |-> "list"]

is_valid_entry(structure, key, value) ==
    /\ key \in DOMAIN _structures(structure)
    /\ (value = None \/ TypeOf(value) = _structures(structure)[key])

\* a check of the entries that does not compare the key sets
is_valid_transaction_entries(structure, transaction) ==
    \A key \in DOMAIN transaction : is_valid_entry(structure, key, transaction[key])

is_valid_transaction(structure, transaction) ==
    /\ DOMAIN _structures(structure) = DOMAIN transaction
    /\ \A key \in DOMAIN transaction : is_valid_entry(structure, key, transaction[key])

\* Transaction.__init__: every field None, then each keyword set through __setitem__
Transaction(structure, kwargs) ==
    IF \E key \in DOMAIN kwargs : ~is_valid_entry(structure, key, kwargs[key])
    THEN Raise("ValueError")
    ELSE DictV([key \in DOMAIN _structures(structure) |->
                    IF key \in DOMAIN kwargs THEN kwargs[key] ELSE None])

\* msgpack.dumps: a tuple is written as a list; bytes are held as the value they unpack to
RECURSIVE msgpack_dumps_value(_)
msgpack_dumps_value(v) ==
    CASE TypeOf(v) \in {"tuple", "list"} ->
            ListV([i \in 1..Len(v[2]) |-> msgpack_dumps_value(v[2][i])])
      [] TypeOf(v) = "dict" ->
            DictV([k \in DOMAIN v[2] |-> msgpack_dumps_value(v[2][k])])
      [] OTHER -> v

msgpack_dumps(v) == Bytes(msgpack_dumps_value(v))

\* msgpack.loads: bytes that are no msgpack encoding raise (a subclass of) ValueError
msgpack_loads(received) == IF received[2] = Junk THEN Raise("ValueError") ELSE received[2]

\* Transaction.encoded
encoded(structure, transaction) ==
    IF ~is_valid_transaction(structure, transaction[2])
    THEN Raise("ValueError")
    ELSE msgpack_dumps(transaction)

decode_transaction(structure, received) ==
    LET decoded == msgpack_loads(received) IN
    IF IsRaise(decoded) THEN decoded
    ELSE IF TypeOf(decoded) # "dict" THEN Raise("AttributeError")
    ELSE IF ~is_valid_transaction(structure, decoded[2]) THEN Raise("RuntimeError")
    ELSE Transaction(structure, decoded[2])

----------------------------------------------------------------------------
(* core/connection/tcp.py: what one TCPClient.send can give back.  The peer  *)
(* is outside the model: it may answer with a valid server transaction, with *)
(* bytes that do not decode, with a mapping that is no server transaction,   *)
(* or the connection may fail.                                               *)

ServerOk == [received_time |-> FloatV(1), sent_time |-> FloatV(2),
             response |-> DictV([states |-> IntV(1)]), error |-> None]
ServerError == [received_time |-> FloatV(1), sent_time |-> FloatV(2),
                response |-> None, error |-> StrV("RuntimeError")]
ServerMissingField == [received_time |-> FloatV(1), sent_time |-> FloatV(2), response |-> None]
ServerWrongType == [received_time |-> FloatV(1), sent_time |-> FloatV(2),
                    response |-> None, error |-> IntV(1)]

NoSend == <<"nosend", 0>>
TCPClient_send ==
    { Raise("OSError"),
      Bytes(Junk),
      Bytes(IntV(66)),
      msgpack_dumps(DictV(ServerOk)),
      msgpack_dumps(DictV(ServerError)),
      msgpack_dumps(DictV(ServerMissingField)),
      msgpack_dumps(DictV(ServerWrongType)) }

----------------------------------------------------------------------------
(* control/interface.py *)

UnableToSend == StrV("ValueError: Unable to send package. Try again")

\* The except clause of DriverInterface.send: the exceptions it turns into a
\* local error transaction
send_catches(exception) == exception = "ValueError"

\* DriverInterface.send with the gate's queue reqs, rx being what the connection
\* does: the exception raised (or "none"), the transaction returned, the queue
\* afterwards and the bytes handed to the connection
send(reqs, rx) ==
    LET enc == encoded("client", Transaction("client", [input |-> ListV(reqs)]))
        dec == IF IsRaise(rx) THEN rx ELSE decode_transaction("server", rx)
    IN  IF IsRaise(dec) /\ ~send_catches(dec[2])
        THEN [exc |-> dec[2], received |-> None, requests |-> reqs, encoded |-> enc]
        ELSE [exc |-> "none",
              received |-> IF IsRaise(dec)
                           THEN Transaction("server", [error |-> UnableToSend])
                           ELSE dec,
              requests |-> <<>>,
              encoded |-> enc]

\* a request that is queued whether or not there is a client
request_unbound_ok(client, reqs, method, kwargs) ==
    [exc |-> "none", requests |-> Append(reqs, TupleV(<<StrV(method), DictV(kwargs)>>))]

\* DriverInterface.request: a gate without a client cannot queue a request
request(client, reqs, method, kwargs) ==
    IF client = None
    THEN [exc |-> "RuntimeError", requests |-> reqs]
    ELSE [exc |-> "none", requests |-> Append(reqs, TupleV(<<StrV(method), DictV(kwargs)>>))]

----------------------------------------------------------------------------
(* control/gatenetwork.py: evaluators and edges *)

\* _standard_evaluators: "true", "false", or "raise" where Python 3 raises
\* TypeError (an ordering between an int and a value that is no number)
_standard_evaluators(name, a, b) ==
    LET ordered == TypeOf(a) \in {"int", "float"} /\ TypeOf(b) \in {"int", "float"}
        truth(c) == IF c THEN "true" ELSE "false"
    IN  CASE name = "eq" -> truth(a = b)
          [] name = "ne" -> truth(a # b)
          [] ~ordered -> "raise"
          [] name = "lt" -> truth(a[2] < b[2])
          [] name = "gt" -> truth(a[2] > b[2])
          [] name = "le" -> truth(a[2] <= b[2])
          [] name = "ge" -> truth(a[2] >= b[2])

\* an evaluator is <<name, negated>>: a standard evaluator, or the
\* lambda a, b: not evaluator(a, b) that add_edge gives the fallback edge
evaluate(evaluator, a, b) ==
    LET r == _standard_evaluators(evaluator[1], a, b) IN
    IF r = "raise" \/ ~evaluator[2] THEN r
    ELSE IF r = "true" THEN "false" ELSE "true"

\* a fallback edge given the evaluator of the edge itself, not its negation
fallback_evaluator_same(evaluator) == evaluator

\* the evaluator add_edge gives the fallback edge
fallback_evaluator(evaluator) == <<evaluator[1], ~evaluator[2]>>

NoKey == <<>>       \* key=None, or the empty string: both are false in a condition
NoGate == ""         \* fallback=None

SetItem(f, k, v) == [j \in (DOMAIN f) \cup {k} |-> IF j = k THEN v ELSE f[j]]
DelItem(f, k) == [j \in (DOMAIN f) \ {k} |-> f[j]]

\* GateNetwork.add_edge without a fallback (the call it makes for its fallback)
add_edge_call(net, from_gate, to_gate, key, value, evaluator) ==
    LET cond == IF key # NoKey /\ value # None
                THEN SetItem(net.conditional_edges, <<from_gate, to_gate>>, <<key, evaluator, value>>)
                ELSE net.conditional_edges
        r == graph_add_edge(net.graph, from_gate, to_gate)
    IN  [exc |-> r.exc, graph |-> r.graph, conditional_edges |-> cond]

\* GateNetwork.add_edge: the condition is recorded first, then the fallback's
\* edge is added, then the edge itself; an exception leaves what was done
add_edge(net, from_gate, to_gate, key, value, evaluator, fallback) ==
    LET is_cond == key # NoKey /\ value # None
        cond == IF is_cond
                THEN SetItem(net.conditional_edges, <<from_gate, to_gate>>, <<key, <<evaluator, FALSE>>, value>>)
                ELSE net.conditional_edges
        net1 == [graph |-> net.graph, conditional_edges |-> cond]
        fb == IF is_cond /\ fallback # NoGate
              THEN add_edge_call(net1, from_gate, fallback, key, value,
                                 fallback_evaluator(<<evaluator, FALSE>>))
              ELSE [exc |-> "none", graph |-> net1.graph, conditional_edges |-> cond]
        r == graph_add_edge(fb.graph, from_gate, to_gate)
    IN  IF fb.exc # "none" THEN fb
        ELSE [exc |-> r.exc, graph |-> r.graph, conditional_edges |-> fb.conditional_edges]

----------------------------------------------------------------------------
(* control/gatenetwork.py: gates *)

\* The handlers a gate can have: none (handled is the inserted dict itself),
\* InjectionHandler (updates the inserted dict in place and returns it),
\* a caller's pure transform that returns a new dict ("const"), a caller's
\* handler that queues a request on its gate and returns the inserted dict
\* ("request"), and RequestFactory (sets the gate's queue to its own).
NoHandler == [kind |-> "none", data |-> EmptyDict]
InjectionHandler(data) == [kind |-> "inject", data |-> data]
ConstHandler(data) == [kind |-> "const", data |-> data]
RequestHandler == [kind |-> "request", data |-> EmptyDict]
RequestFactory == [kind |-> "factory", data |-> EmptyDict]

FactoryRequests == << TupleV(<<StrV("get"), DictV([fields |-> TupleV(<<StrV("states")>>)])>>) >>

\* a gate without a handler that hands on a new, empty dict
apply_handler_dropping(gate_key, r, h, q) ==
    LET hd == handlers[gate_key] IN
    CASE hd.kind = "none" ->
            [exc |-> "none", ref |-> Len(h) + 1, heap |-> Append(h, EmptyDict), requests |-> q]
      [] hd.kind = "inject" ->
            [exc |-> "none", ref |-> r, heap |-> [h EXCEPT ![r] = DictUpdate(@, hd.data)],
             requests |-> q]
      [] hd.kind = "const" ->
            [exc |-> "none", ref |-> Len(h) + 1, heap |-> Append(h, hd.data), requests |-> q]
      [] hd.kind = "request" ->
            LET rq == request(gate_client[gate_key], q, "get",
                              [fields |-> TupleV(<<StrV("states")>>)])
            IN  [exc |-> rq.exc, ref |-> r, heap |-> h, requests |-> rq.requests]
      [] hd.kind = "factory" ->
            [exc |-> "none", ref |-> r, heap |-> h, requests |-> FactoryRequests]

\* step 1 of Gate.activate: the handler applied to the inserted dict (a
\* reference r into heap h); q is the gate's request queue
apply_handler(gate_key, r, h, q) ==
    LET hd == handlers[gate_key] IN
    CASE hd.kind = "none" -> [exc |-> "none", ref |-> r, heap |-> h, requests |-> q]
      [] hd.kind = "inject" ->
            [exc |-> "none", ref |-> r, heap |-> [h EXCEPT ![r] = DictUpdate(@, hd.data)],
             requests |-> q]
      [] hd.kind = "const" ->
            [exc |-> "none", ref |-> Len(h) + 1, heap |-> Append(h, hd.data), requests |-> q]
      [] hd.kind = "request" ->
            LET rq == request(gate_client[gate_key], q, "get",
                              [fields |-> TupleV(<<StrV("states")>>)])
            IN  [exc |-> rq.exc, ref |-> r, heap |-> h, requests |-> rq.requests]
      [] hd.kind = "factory" ->
            [exc |-> "none", ref |-> r, heap |-> h, requests |-> FactoryRequests]

\* an activate that sends only when the gate's queue holds a request
activate_skipping_empty(gate_key, inserted, h, rx) ==
    LET h0 == IF inserted = 0 THEN Append(h, EmptyDict) ELSE h
        r0 == IF inserted = 0 THEN Len(h) + 1 ELSE inserted
        a == apply_handler(gate_key, r0, h0, requests[gate_key])
        s == send(a.requests, rx)
        unsent == [exc |-> a.exc, ref |-> a.ref, heap |-> a.heap, requests |-> a.requests,
                   sent |-> NoSend, received |-> None]
    IN  IF a.exc # "none" \/ gate_client[gate_key] = None \/ a.requests = <<>> THEN unsent
        ELSE IF s.exc # "none"
        THEN [unsent EXCEPT !.exc = s.exc, !.requests = s.requests, !.sent = s.encoded]
        ELSE [unsent EXCEPT !.heap = [a.heap EXCEPT ![a.ref] = DictUpdate(@, s.received[2])],
                            !.requests = s.requests, !.sent = s.encoded,
                            !.received = s.received]

\* Gate.activate(inserted): inserted is a reference or 0 for None; rx is what
\* the connection does if the gate sends.  Gives the exception raised (or
\* "none"), the reference returned, the heap and the gate's queue afterwards,
\* and what was sent.
activate(gate_key, inserted, h, rx) ==
    LET h0 == IF inserted = 0 THEN Append(h, EmptyDict) ELSE h
        r0 == IF inserted = 0 THEN Len(h) + 1 ELSE inserted
        a == apply_handler(gate_key, r0, h0, requests[gate_key])
        s == send(a.requests, rx)
        unsent == [exc |-> a.exc, ref |-> a.ref, heap |-> a.heap, requests |-> a.requests,
                   sent |-> NoSend, received |-> None]
    IN  IF a.exc # "none" \/ gate_client[gate_key] = None THEN unsent
        ELSE IF s.exc # "none"
        THEN [unsent EXCEPT !.exc = s.exc, !.requests = s.requests, !.sent = s.encoded]
        ELSE [unsent EXCEPT !.heap = [a.heap EXCEPT ![a.ref] = DictUpdate(@, s.received[2])],
                            !.requests = s.requests, !.sent = s.encoded,
                            !.received = s.received]

----------------------------------------------------------------------------
(* control/gatenetwork.py: GateNetwork._get_next_generation *)

\* a barrier that holds for conditional edges as well: every parent of child
\* over an unconditional edge is required
required_parents_all(gate_key, child, is_conditional) ==
    {parent \in in_neighbors(graph, child) : <<parent, child>> \notin DOMAIN conditional_edges}

\* the parents that must have fired before child may be activated over the
\* edge gate_key -> child
required_parents(gate_key, child, is_conditional) ==
    {parent \in in_neighbors(graph, child) :
        ~(is_conditional \/ <<parent, child>> \in DOMAIN conditional_edges \/ parent # gate_key)}

\* update_item(next_gates, key, value) on payloads: a key already present has
\* its dict updated in place, a new key is bound to the very dict passed
update_item(next_gates, h, key, r) ==
    IF key \in Keys(next_gates)
    THEN [next_gates |-> next_gates,
          heap |-> [h EXCEPT ![Lookup(next_gates, key)] = DictUpdate(@, h[r])]]
    ELSE [next_gates |-> Append(next_gates, <<key, r>>), heap |-> h]

\* the loop of lines 295-297: every parked payload of child is merged, in the
\* order parked, into the dict r itself
RECURSIVE merge_carry_over(_, _, _)
merge_carry_over(parked, h, r) ==
    IF parked = <<>> THEN h
    ELSE merge_carry_over(Tail(parked), [h EXCEPT ![r] = DictUpdate(@, h[Head(parked)[2]])], r)

\* the body of the loop over the children of gate_key (lines 274-302), for the
\* children in the order given; r is gate_key's activation result, acc the
\* state so far: next_gates, carry_overs, heap, exc, scheduled
RECURSIVE process_children(_, _, _, _, _)
process_children(gate_key, r, order, current, acc) ==
    IF order = <<>> \/ acc.exc # "none" THEN acc
    ELSE
    LET child == Head(order)
        edge == <<gate_key, child>>
        is_conditional == edge \in DOMAIN conditional_edges
        test == IF is_conditional
                THEN LET got == get_nested(conditional_edges[edge][1], acc.heap[r]) IN
                     IF IsRaise(got) THEN "raise"
                     ELSE evaluate(conditional_edges[edge][2], conditional_edges[edge][3], got)
                ELSE "true"
        parents == required_parents(gate_key, child, is_conditional)
        parked == IF child \in DOMAIN acc.carry_overs THEN acc.carry_overs[child] ELSE <<>>
        carry_over_parents == Keys(parked)
        h1 == merge_carry_over(parked, acc.heap, r)
        co1 == IF child \in DOMAIN acc.carry_overs THEN DelItem(acc.carry_overs, child)
               ELSE acc.carry_overs
        u == update_item(acc.next_gates, h1, child, r)
    IN
    process_children(gate_key, r, Tail(order), current,
        CASE test = "raise" -> [acc EXCEPT !.exc = "TypeError"]
          [] test = "false" -> acc
          [] parents \subseteq (carry_over_parents \cup Keys(current)) ->
                [acc EXCEPT !.next_gates = u.next_gates, !.heap = u.heap,
                            !.carry_overs = co1, !.scheduled = @ \cup {child}]
          [] OTHER ->
                [acc EXCEPT !.heap = h1,
                            !.carry_overs = SetItem(co1, child, <<<<gate_key, r>>>>)])

----------------------------------------------------------------------------
(* The networks the model is run on, each built by add_edge calls *)

EmptyFn == [k \in {} |-> 0]

\* a client object: its class and its target_address
Client(type, target_hostname, target_port) == <<type, <<target_hostname, target_port>>>>
DriverClient == Client("tcp", "driver", 1)

Net0(gates) == [exc |-> "none", graph |-> [g \in gates |-> {}], conditional_edges |-> EmptyFn]
Edge(net, from_gate, to_gate) == add_edge(net, from_gate, to_gate, NoKey, None, "eq", NoGate)
X == <<"x">>

NoHandlers(gates) == [g \in gates |-> NoHandler]
NoClients(gates) == [g \in gates |-> None]
Network(net, hs, cs, fbs) ==
    [graph |-> net.graph, conditional_edges |-> net.conditional_edges,
     handlers |-> hs, gate_client |-> cs, fallbacks |-> fbs]

ABC == {"A", "B", "C"}
ABCD == {"A", "B", "C", "D"}
Inj(k, n) == InjectionHandler(Dict1(k, IntV(n)))

\* C has the unconditional parents A and B; B is no successor of A
NetTwoParents ==
    Network(Edge(Edge(Net0(ABC), "A", "C"), "B", "C"),
            [NoHandlers(ABC) EXCEPT !["A"] = Inj("a", 1), !["B"] = Inj("b", 1)],
            NoClients(ABC), {})
\* C has the unconditional parents A and B; B fires a generation after A
NetLateJoin ==
    Network(Edge(Edge(Edge(Net0(ABC), "A", "B"), "A", "C"), "B", "C"),
            [NoHandlers(ABC) EXCEPT !["A"] = ConstHandler(Dict1("a", IntV(1))),
                                    !["B"] = ConstHandler(Dict1("b", IntV(1)))],
            NoClients(ABC), {})
\* A and B fire in the same generation and share the child C
NetDiamond ==
    Network(Edge(Edge(Edge(Edge(Net0(ABCD), "D", "A"), "D", "B"), "A", "C"), "B", "C"),
            [NoHandlers(ABCD) EXCEPT !["A"] = ConstHandler(Dict1("a", IntV(1))),
                                     !["B"] = ConstHandler(Dict1("b", IntV(1)))],
            NoClients(ABCD), {})
\* add_edge("A", "B", "x", 1, evaluator, fallback="C")
NetFallback(evaluator) ==
    Network(add_edge(Net0(ABC), "A", "B", X, IntV(1), evaluator, "C"),
            [NoHandlers(ABC) EXCEPT !["B"] = Inj("b", 1), !["C"] = Inj("c", 1)],
            NoClients(ABC), {<<"A", "B", "C">>})
\* C has one unconditional parent, A, and one conditional parent, B
NetMixed ==
    Network(add_edge(Edge(Edge(Edge(Net0(ABCD), "D", "A"), "D", "B"), "A", "C"),
                     "B", "C", X, IntV(1), "eq", NoGate),
            [NoHandlers(ABCD) EXCEPT !["A"] = ConstHandler(Dict1("k", IntV(1))),
                                     !["B"] = ConstHandler([k |-> IntV(2), x |-> IntV(1)])],
            NoClients(ABCD), {})
\* a tree: the sink B and the chain C -> D under A
NetTree ==
    Network(Edge(Edge(Edge(Net0(ABCD), "A", "B"), "A", "C"), "C", "D"),
            [NoHandlers(ABCD) EXCEPT !["B"] = Inj("k", 1), !["C"] = Inj("k", 2),
                                     !["D"] = Inj("d", 1)],
            NoClients(ABCD), {})
\* a chain whose gates queue requests; B is bound to a client, C is not
NetClient ==
    Network(Edge(Edge(Net0(ABC), "A", "B"), "B", "C"),
            [NoHandlers(ABC) EXCEPT !["A"] = RequestFactory, !["B"] = RequestHandler],
            [NoClients(ABC) EXCEPT !["A"] = DriverClient, !["B"] = DriverClient], {})
\* a gate that queues a request without a client
NetUnbound ==
    Network(Edge(Net0({"A", "B"}), "A", "B"),
            [NoHandlers({"A", "B"}) EXCEPT !["B"] = RequestHandler],
            [NoClients({"A", "B"}) EXCEPT !["A"] = DriverClient], {})
\* a cycle of unconditional edges
NetCycle ==
    Network(Edge(Edge(Net0({"A", "B"}), "A", "B"), "B", "A"),
            NoHandlers({"A", "B"}), NoClients({"A", "B"}), {})

\* a chain of unconditional edges whose gates after A have no handler
NetChain ==
    Network(Edge(Edge(Net0(ABC), "A", "B"), "B", "C"),
            [NoHandlers(ABC) EXCEPT !["A"] = ConstHandler(Dict1("n", IntV(5)))],
            NoClients(ABC), {})
\* B and C are both children of A; B's handler sets a key of the payload
NetSiblings ==
    Network(Edge(Edge(Net0(ABC), "A", "B"), "A", "C"),
            [NoHandlers(ABC) EXCEPT !["B"] = Inj("x", 3)],
            NoClients(ABC), {})
\* A and B fire in the same generation; C is a child of both, E of A only;
\* the outputs of A and B share the key k, which the handler of E sets
ABCDE == {"A", "B", "C", "D", "E"}
NetShared ==
    Network(Edge(Edge(Edge(Edge(Edge(Net0(ABCDE), "D", "A"), "D", "B"), "A", "C"), "A", "E"),
                 "B", "C"),
            [NoHandlers(ABCDE) EXCEPT !["A"] = ConstHandler([a |-> IntV(1), k |-> IntV(1)]),
                                      !["B"] = ConstHandler([b |-> IntV(1), k |-> IntV(2)]),
                                      !["E"] = Inj("k", 3)],
            NoClients(ABCDE), {})

\* a cycle of unconditional edges, B -> C -> B, behind the conditional edge
\* A -> B
NetCondCycle ==
    Network(Edge(Edge(add_edge(Net0(ABC), "A", "B", X, IntV(1), "eq", NoGate), "B", "C"),
                 "C", "B"),
            NoHandlers(ABC), NoClients(ABC), {})

Networks ==
    {NetTwoParents, NetLateJoin, NetDiamond, NetFallback("eq"), NetFallback("ne"),
     NetFallback("lt"), NetFallback("ge"), NetMixed, NetTree, NetClient, NetUnbound, NetCycle,
     NetChain, NetSiblings, NetShared, NetCondCycle}

\* the chain A -> B
NetPair ==
    Network(Edge(Net0({"A", "B"}), "A", "B"),
            [NoHandlers({"A", "B"}) EXCEPT !["B"] = Inj("b", 1)], NoClients({"A", "B"}), {})

ConcNetworks == {NetPair}

Gates == ABCDE
Starts == (DOMAIN graph) \cup {"Z"}      \* "Z" is the key of no gate
Payloads == {None, DictV(Dict1("x", IntV(1))), DictV(Dict1("x", IntV(2)))}

----------------------------------------------------------------------------
(* The flows that call into a network: each is idle, or somewhere in          *)
(* _on_receive / run / _resolve with the locals of that call                  *)

Flows == {1, 2}

NoProc == [gate |-> NoGate, result |-> EmptyDict, scheduled |-> {}, raised |-> FALSE]
NoSent == [gate |-> NoGate, exc |-> "none", rx |-> NoSend, received |-> None, encoded |-> NoSend]
NoInput == [gate |-> NoGate, value |-> EmptyDict, handled |-> EmptyDict, returned |-> FALSE]
NoLast == [start |-> NoGate, payload |-> None, result |-> EmptyFn]
BUSY == Bytes("BUSY")
NoReply == [batch |-> None, exc |-> "none", reply |-> None, level |-> FALSE,
            before |-> [components |-> <<>>, routines |-> <<>>]]
NoTx == [alive |-> FALSE, structure |-> "", fields |-> EmptyFn, op |-> "none", arg |-> None,
         exc |-> "none", prev |-> EmptyFn, out |-> None]
NoCall == [op |-> "none", args |-> <<>>, exc |-> "none", out |-> None, n |-> 0,
           before |-> [graph |-> EmptyFn, conditional_edges |-> EmptyFn,
                       clients |-> EmptyFn, gate_client |-> EmptyFn, routines |-> <<>>]]
NoCheck == [key |-> "", interval_mod |-> 0, fired |-> FALSE, armed |-> FALSE, present |-> FALSE]
NotStarted == [pc |-> "stopped", elapsed |-> 0, to_update |-> EmptyFn, i |-> 0, size |-> 0,
               entry |-> <<>>, check |-> NoCheck, armed |-> EmptyFn, fired |-> EmptyFn,
               since |-> EmptyFn, every_tick |-> TRUE,
               died |-> [exc |-> "none", entry |-> <<>>]]

IdleFlow ==
    [pc |-> "idle", via |-> "none", start |-> NoGate, payload |-> None,
     current |-> <<>>, idx |-> 0, next_gates |-> <<>>, act |-> 0, next_generation |-> <<>>,
     carry_overs |-> EmptyFn, completed |-> EmptyFn, heap |-> <<>>,
     exc |-> "none", reply |-> None,
     \* history of the call, for stating the properties
     activations |-> [g \in Gates |-> 0], outputs |-> EmptyFn, recorded |-> EmptyFn,
     proc |-> NoProc, sent |-> NoSent,
     \* the passes of the loop of _resolve so far, the payloads (as they were when
     \* passed) that scheduled each gate of next_gates, and the last activation
     \* since a payload was passed on: the dict inserted, what the handler made of
     \* it, and whether the activation returned
     gens |-> 0, sched |-> EmptyFn, input |-> NoInput]

\* the value of the map a run returns: every completed gate with its dict
completed_value(f) == [g \in DOMAIN f.completed |-> f.heap[f.completed[g]]]

InFlight(f) == f.pc \in {"resolve", "schedule", "activate"}

----------------------------------------------------------------------------
(* GateNetwork._on_receive, run and _resolve, step by step *)

Others == <<graph, conditional_edges, handlers, gate_client, fallbacks, components,
            routines, driver_reply, served, tx, clients, call, scheduler>>

\* what the connection can do when gate_key is activated
Connection(gate_key) ==
    IF gate_key \in DOMAIN gate_client /\ gate_client[gate_key] # None
    THEN TCPClient_send ELSE {NoSend}

\* an _on_receive that does not look at is_busy
OnReceive_Unguarded(p) ==
    /\ flow[p].pc = "idle"
    /\ \E start \in Starts, payload \in Payloads :
            flow' = [flow EXCEPT ![p] = [IdleFlow EXCEPT !.pc = "call_run", !.via = "request",
                                            !.start = start, !.payload = payload]]
    /\ UNCHANGED <<requests, is_busy, generation_count, last, Others>>

\* an _on_receive that tests and sets is_busy in one step
OnReceive_Atomic(p) ==
    /\ flow[p].pc = "idle"
    /\ IF ~is_busy
       THEN /\ \E start \in Starts, payload \in Payloads :
                flow' = [flow EXCEPT ![p] = [IdleFlow EXCEPT !.pc = "call_run", !.via = "request",
                                                !.start = start, !.payload = payload]]
            /\ is_busy' = TRUE
       ELSE /\ flow' = [flow EXCEPT ![p] = [IdleFlow EXCEPT !.pc = "replied", !.via = "request",
                                                           !.reply = BUSY]]
            /\ UNCHANGED is_busy
    /\ UNCHANGED <<requests, generation_count, last, Others>>

\* _on_receive, lines 253-261: is_busy is read; a busy network answers b"BUSY",
\* otherwise the request is decoded and run is about to be called
OnReceive(p) ==
    /\ flow[p].pc = "idle"
    /\ IF ~is_busy
       THEN \E start \in Starts, payload \in Payloads :
                flow' = [flow EXCEPT ![p] = [IdleFlow EXCEPT !.pc = "call_run", !.via = "request",
                                                !.start = start, !.payload = payload]]
       ELSE flow' = [flow EXCEPT ![p] = [IdleFlow EXCEPT !.pc = "replied", !.via = "request",
                                                         !.reply = BUSY]]
    /\ UNCHANGED <<requests, is_busy, generation_count, last, Others>>

\* a caller calls run(start, initial_payload) itself
DirectRun(p) ==
    /\ flow[p].pc = "idle"
    /\ \E start \in Starts, payload \in Payloads :
            flow' = [flow EXCEPT ![p] = [IdleFlow EXCEPT !.pc = "call_run", !.via = "run",
                                            !.start = start, !.payload = payload]]
    /\ UNCHANGED <<requests, is_busy, generation_count, last, Others>>

\* a run that never sets the busy flag
RunBegin_NoFlag(p) ==
    /\ flow[p].pc = "call_run"
    /\ flow' = [flow EXCEPT ![p].pc = "resolve"]
    /\ UNCHANGED <<requests, is_busy, generation_count, last, Others>>

\* run, lines 226-231: the busy flag is set (the warning changes nothing)
RunBegin(p) ==
    /\ flow[p].pc = "call_run"
    /\ is_busy' = TRUE
    /\ flow' = [flow EXCEPT ![p].pc = "resolve"]
    /\ UNCHANGED <<requests, generation_count, last, Others>>

\* the record of one activation in the flow's history: gate_key was activated
\* with the reference inserted into heap h (0 for None) and activate gave a
Activated(f, gate_key, inserted, h, a, rx) ==
    LET h0 == IF inserted = 0 THEN Append(h, EmptyDict) ELSE h
        r0 == IF inserted = 0 THEN Len(h) + 1 ELSE inserted
        handled == apply_handler(gate_key, r0, h0, requests[gate_key])
    IN
    [f EXCEPT !.heap = a.heap,
              !.input = [gate |-> gate_key, value |-> h0[r0],
                         handled |-> IF handled.exc = "none" THEN handled.heap[handled.ref]
                                     ELSE EmptyDict,
                         returned |-> a.exc = "none"],
              !.activations[gate_key] = @ + 1,
              !.outputs = IF a.exc = "none" THEN SetItem(@, gate_key, a.heap[a.ref]) ELSE @,
              !.proc = NoProc,
              !.sent = IF a.sent = NoSend THEN NoSent
                       ELSE [gate |-> gate_key, exc |-> a.exc, rx |-> rx,
                             received |-> a.received, encoded |-> a.sent]]

\* _resolve, lines 311-317: the start gate is activated with the payload, and
\* the first generation begins
ResolveStart(p) ==
    /\ flow[p].pc = "resolve"
    /\ generation_count < MaxGen
    /\ LET f == flow[p] IN
       IF f.start \notin DOMAIN graph
       THEN /\ flow' = [flow EXCEPT ![p].pc = "raised", ![p].exc = "KeyError"]
            /\ UNCHANGED <<requests, generation_count>>
       ELSE \E rx \in Connection(f.start) :
            LET h == IF f.payload = None THEN <<>> ELSE <<f.payload[2]>>
                a == activate(f.start, Len(h), h, rx)
                g == Activated(f, f.start, Len(h), h, a, rx)
            IN  /\ Len(a.requests) <= MaxQueue
                /\ requests' = [requests EXCEPT ![f.start] = a.requests]
                /\ IF a.exc # "none"
                   THEN /\ flow' = [flow EXCEPT ![p] = [g EXCEPT !.pc = "raised", !.exc = a.exc]]
                        /\ UNCHANGED generation_count
                   ELSE /\ flow' = [flow EXCEPT ![p] =
                                [g EXCEPT !.pc = "schedule", !.idx = 1, !.gens = 1,
                                          !.current = <<<<f.start, a.ref, a.heap[a.ref]>>>>]]
                        /\ generation_count' = generation_count + 1
    /\ UNCHANGED <<is_busy, last, Others>>

\* a pass that hands a payload only to the children not yet activated in the run
ProcessGate_Once(p) ==
    /\ flow[p].pc = "schedule"
    /\ LET f == flow[p]
           gate_key == f.current[f.idx][1]
           r == f.current[f.idx][2]
           pc1 == IF f.idx = Len(f.current) THEN "activate" ELSE "schedule"
       IN  IF graph[gate_key] = {}
           THEN flow' = [flow EXCEPT ![p] =
                    [f EXCEPT !.completed = SetItem(@, gate_key, r),
                              !.recorded = SetItem(@, gate_key, f.current[f.idx][3]),
                              !.idx = @ + 1, !.act = 1, !.pc = pc1,
                              !.proc = NoProc, !.sent = NoSent, !.input = NoInput]]
           ELSE \E order \in Orders({c \in graph[gate_key] : f.activations[c] = 0}) :
                LET acc == process_children(gate_key, r, order, f.current,
                               [next_gates |-> f.next_gates, carry_overs |-> f.carry_overs,
                                heap |-> f.heap, exc |-> "none", scheduled |-> {}])
                IN  flow' = [flow EXCEPT ![p] =
                        [f EXCEPT !.next_gates = acc.next_gates,
                                  !.carry_overs = acc.carry_overs,
                                  !.heap = acc.heap,
                                  !.sched = [c \in (DOMAIN @) \cup acc.scheduled |->
                                                (IF c \in DOMAIN @ THEN @[c] ELSE <<>>)
                                                \o (IF c \in acc.scheduled THEN <<f.heap[r]>>
                                                    ELSE <<>>)],
                                  !.idx = @ + 1, !.act = 1,
                                  !.pc = IF acc.exc # "none" THEN "raised" ELSE pc1,
                                  !.exc = acc.exc,
                                  !.proc = [gate |-> gate_key, result |-> f.heap[r],
                                            scheduled |-> acc.scheduled,
                                            raised |-> acc.exc # "none"],
                                  !.sent = NoSent, !.input = NoInput]]
    /\ UNCHANGED <<requests, is_busy, generation_count, last, Others>>

\* _get_next_generation, lines 266-302, for one entry of current: a gate without
\* successors is completed, the payload of any other is passed to its children
ProcessGate(p) ==
    /\ flow[p].pc = "schedule"
    /\ LET f == flow[p]
           gate_key == f.current[f.idx][1]
           r == f.current[f.idx][2]
           pc1 == IF f.idx = Len(f.current) THEN "activate" ELSE "schedule"
       IN  IF graph[gate_key] = {}
           THEN flow' = [flow EXCEPT ![p] =
                    [f EXCEPT !.completed = SetItem(@, gate_key, r),
                              !.recorded = SetItem(@, gate_key, f.current[f.idx][3]),
                              !.idx = @ + 1, !.act = 1, !.pc = pc1,
                              !.proc = NoProc, !.sent = NoSent, !.input = NoInput]]
           ELSE \E order \in Orders(graph[gate_key]) :
                LET acc == process_children(gate_key, r, order, f.current,
                               [next_gates |-> f.next_gates, carry_overs |-> f.carry_overs,
                                heap |-> f.heap, exc |-> "none", scheduled |-> {}])
                IN  flow' = [flow EXCEPT ![p] =
                        [f EXCEPT !.next_gates = acc.next_gates,
                                  !.carry_overs = acc.carry_overs,
                                  !.heap = acc.heap,
                                  !.sched = [c \in (DOMAIN @) \cup acc.scheduled |->
                                                (IF c \in DOMAIN @ THEN @[c] ELSE <<>>)
                                                \o (IF c \in acc.scheduled THEN <<f.heap[r]>>
                                                    ELSE <<>>)],
                                  !.idx = @ + 1, !.act = 1,
                                  !.pc = IF acc.exc # "none" THEN "raised" ELSE pc1,
                                  !.exc = acc.exc,
                                  !.proc = [gate |-> gate_key, result |-> f.heap[r],
                                            scheduled |-> acc.scheduled,
                                            raised |-> acc.exc # "none"],
                                  !.sent = NoSent, !.input = NoInput]]
    /\ UNCHANGED <<requests, is_busy, generation_count, last, Others>>

\* _get_next_generation, lines 303-304, for one scheduled gate
ActivateNext(p) ==
    /\ flow[p].pc = "activate"
    /\ flow[p].act <= Len(flow[p].next_gates)
    /\ LET f == flow[p]
           gate_key == f.next_gates[f.act][1]
       IN  IF gate_key \notin DOMAIN graph
           THEN /\ flow' = [flow EXCEPT ![p].pc = "raised", ![p].exc = "KeyError",
                                        ![p].proc = NoProc, ![p].sent = NoSent, ![p].input = NoInput]
                /\ UNCHANGED requests
           ELSE \E rx \in Connection(gate_key) :
                LET a == activate(gate_key, f.next_gates[f.act][2], f.heap, rx)
                    g == Activated(f, gate_key, f.next_gates[f.act][2], f.heap, a, rx)
                IN  /\ Len(a.requests) <= MaxQueue
                    /\ requests' = [requests EXCEPT ![gate_key] = a.requests]
                    /\ flow' = [flow EXCEPT ![p] =
                            IF a.exc # "none"
                            THEN [g EXCEPT !.pc = "raised", !.exc = a.exc]
                            ELSE [g EXCEPT !.act = @ + 1,
                                           !.next_generation =
                                               Append(@, <<gate_key, a.ref, a.heap[a.ref]>>)]]
    /\ UNCHANGED <<is_busy, generation_count, last, Others>>

\* a loop that goes over the current generation once more
NextGeneration_Again(p) ==
    /\ flow[p].pc = "activate"
    /\ flow[p].act > Len(flow[p].next_gates)
    /\ flow[p].next_generation # <<>>
    /\ generation_count < MaxGen
    /\ generation_count' = generation_count + 1
    /\ flow' = [flow EXCEPT ![p].pc = "schedule",
                            ![p].idx = 1, ![p].next_gates = <<>>, ![p].next_generation = <<>>,
                            ![p].gens = @ + 1, ![p].sched = EmptyFn,
                            ![p].proc = NoProc, ![p].sent = NoSent, ![p].input = NoInput]
    /\ UNCHANGED <<requests, is_busy, last, Others>>

\* _resolve, lines 316-319: the generation just activated is not empty, so it
\* becomes the current one and the count goes up
NextGeneration(p) ==
    /\ flow[p].pc = "activate"
    /\ flow[p].act > Len(flow[p].next_gates)
    /\ flow[p].next_generation # <<>>
    /\ generation_count < MaxGen
    /\ generation_count' = generation_count + 1
    /\ flow' = [flow EXCEPT ![p].pc = "schedule", ![p].current = flow[p].next_generation,
                            ![p].idx = 1, ![p].next_gates = <<>>, ![p].next_generation = <<>>,
                            ![p].gens = @ + 1, ![p].sched = EmptyFn,
                            ![p].proc = NoProc, ![p].sent = NoSent, ![p].input = NoInput]
    /\ UNCHANGED <<requests, is_busy, last, Others>>

\* _resolve, lines 319-320, and run, lines 234-235: the next generation is empty,
\* completed is returned and the busy flag is cleared
RunReturn(p) ==
    /\ flow[p].pc = "activate"
    /\ flow[p].act > Len(flow[p].next_gates)
    /\ flow[p].next_generation = <<>>
    /\ is_busy' = FALSE
    /\ flow' = [flow EXCEPT ![p].pc = "returned",
                            ![p].reply = DictV(completed_value(flow[p])),
                            ![p].proc = NoProc, ![p].sent = NoSent, ![p].input = NoInput]
    /\ UNCHANGED <<requests, generation_count, last, Others>>

\* a run that clears the busy flag when it raises, as in a finally clause
Finish_Clearing(p) ==
    /\ flow[p].pc \in {"returned", "replied", "raised"}
    /\ flow' = [flow EXCEPT ![p] = IdleFlow]
    /\ is_busy' = IF flow[p].pc = "raised" THEN FALSE ELSE is_busy
    /\ last' = IF flow[p].pc = "returned"
               THEN [start |-> flow[p].start, payload |-> flow[p].payload,
                     result |-> completed_value(flow[p])]
               ELSE last
    /\ UNCHANGED <<requests, generation_count, Others>>

\* the call is over (it returned, answered or raised): the flow is idle again,
\* and what a run returned is remembered for comparing the next run with it
Finish(p) ==
    /\ flow[p].pc \in {"returned", "replied", "raised"}
    /\ flow' = [flow EXCEPT ![p] = IdleFlow]
    /\ last' = IF flow[p].pc = "returned"
               THEN [start |-> flow[p].start, payload |-> flow[p].payload,
                     result |-> completed_value(flow[p])]
               ELSE last
    /\ UNCHANGED <<requests, is_busy, generation_count, Others>>

InitWith(networks) ==
    /\ \E n \in networks :
        /\ graph = n.graph
        /\ conditional_edges = n.conditional_edges
        /\ handlers = n.handlers
        /\ gate_client = n.gate_client
        /\ fallbacks = n.fallbacks
        /\ requests = [g \in DOMAIN n.graph |-> <<>>]
    /\ is_busy = FALSE
    /\ generation_count = 0
    /\ flow = [p \in Flows |-> IdleFlow]
    /\ last = NoLast
    /\ components = <<>>
    /\ routines = <<>>
    /\ driver_reply = NoReply
    /\ served = 0
    /\ tx = NoTx
    /\ clients = IF \E g \in DOMAIN gate_client : gate_client[g] # None
                 THEN Dict1("driver", DriverClient) ELSE EmptyFn
    /\ call = NoCall
    /\ scheduler = NotStarted

Init == InitWith(Networks)

\* one flow: the calls into the network come one after the other
Next ==
    \E p \in {1} :
        \/ OnReceive(p)
        \/ RunBegin(p)
        \/ ResolveStart(p)
        \/ ProcessGate(p)
        \/ ActivateNext(p)
        \/ NextGeneration(p)
        \/ RunReturn(p)
        \/ Finish(p)

Spec == Init /\ [][Next]_vars

\* two flows: a server flow and a caller of run, or two handlers of requests
NextConc ==
    \E p \in Flows :
        \/ OnReceive(p)
        \/ DirectRun(p)
        \/ RunBegin(p)
        \/ ResolveStart(p)
        \/ ProcessGate(p)
        \/ ActivateNext(p)
        \/ NextGeneration(p)
        \/ RunReturn(p)
        \/ Finish(p)

InitConc == InitWith(ConcNetworks)

SpecConc == InitConc /\ [][NextConc]_vars

----------------------------------------------------------------------------
(* embedded/components.py and embedded/platforms *)

BoolV(b) == <<"bool", b>>

\* supported_components: the class every component type names
supported_components ==
    [led |-> "TriggerComponent", motor |-> "TriggerComponent", servo |-> "ServoComponent",
     switch |-> "SwitchComponent", trigger |-> "TriggerComponent",
     ultrasonic |-> "UltrasonicSensorComponent"]

\* the channel types of the Raspberry Pi platform
channel_types == {"input", "output", "pwm"}

\* the classes that derive from ExecutableComponentABC
Executable == {"TriggerComponent", "ServoComponent"}

\* the arguments __init__ of a class requires, and those it accepts
required_setup_args(class) ==
    CASE class = "TriggerComponent" -> {"trigger_pin"}
      [] class = "SwitchComponent" -> {"input_pin"}
      [] class = "UltrasonicSensorComponent" -> {"trigger_pin", "echo_pin"}
      [] class = "ServoComponent" -> {"trigger_pin"}
accepted_setup_args(class) ==
    CASE class = "TriggerComponent" -> {"trigger_pin", "turn_on"}
      [] class = "SwitchComponent" -> {"input_pin"}
      [] class = "UltrasonicSensorComponent" -> {"trigger_pin", "echo_pin", "trigger_pw", "measurements"}
      [] class = "ServoComponent" -> {"trigger_pin", "frequency", "start_on_time", "end_on_time", "max_angle"}

\* the channel types a class defines its pins with
pin_types(class) ==
    CASE class = "TriggerComponent" -> {"output"}
      [] class = "SwitchComponent" -> {"input"}
      [] class = "UltrasonicSensorComponent" -> {"output", "input"}
      [] class = "ServoComponent" -> {"pwm"}

\* a component is its class and the state of its pin.  __init__ of a class, given
\* the keywords of setup: the exception raised (or "none") and the component
new_component(class, setup) ==
    IF ~(required_setup_args(class) \subseteq DOMAIN setup /\ DOMAIN setup \subseteq accepted_setup_args(class))
    THEN [exc |-> "TypeError", component |-> None]
    ELSE IF ~(pin_types(class) \subseteq channel_types) THEN [exc |-> "KeyError", component |-> None]
    ELSE [exc |-> "none",
          component |-> [class |-> class,
                         is_on |-> "turn_on" \in DOMAIN setup /\ setup["turn_on"] = BoolV(TRUE)]]

\* ExecutableComponentABC.execute on a TriggerComponent: an attribute that is
\* missing or cannot be called this way is a RuntimeError
execute(component, operation, kwargs) ==
    IF DOMAIN kwargs # {} \/ operation \notin {"toggle", "turn_on", "turn_off"}
    THEN [exc |-> "RuntimeError", component |-> component]
    ELSE [exc |-> "none",
          component |-> [component EXCEPT !.is_on = CASE operation = "toggle" -> ~component.is_on
                                                      [] operation = "turn_on" -> TRUE
                                                      [] operation = "turn_off" -> FALSE]]

\* read() of a component; level is what an input pin reads at the moment
read(component, level) ==
    IF component.class = "SwitchComponent"
    THEN DictV([is_on |-> BoolV(level)])
    ELSE DictV([is_on |-> BoolV(component.is_on)])

----------------------------------------------------------------------------
(* embedded/driver.py: _Driver.  The driver d is its two dicts, components   *)
(* and routines, each an insertion-ordered sequence of <<name, value>>.      *)
(* Every method gives the driver afterwards, the exception raised (or        *)
(* "none") and the value returned.                                           *)

Done(d, result) == [exc |-> "none", driver |-> d, result |-> result]
Failed(d, exception) == [exc |-> exception, driver |-> d, result |-> None]

\* od[k] = v and del od[k] on an insertion-ordered dict
OdSet(od, k, v) ==
    IF k \in Keys(od) THEN [od EXCEPT ![IndexOf(od, k)] = <<k, v>>] ELSE Append(od, <<k, v>>)
OdDel(od, k) == SelectSeq(od, LAMBDA e : e[1] # k)
KeyList(od) == ListV([i \in 1..Len(od) |-> StrV(od[i][1])])

\* the names a keyword dict must give and may give for a call to bind
Binds(kwargs, required, optional) ==
    required \subseteq DOMAIN kwargs /\ DOMAIN kwargs \subseteq required \cup optional

_exe_handlers == {"component"}
_delete_handlers == {"component", "routine"}
_create_handlers == {"routine", "component"}
retrieval_methods == {"get"}
_get_handlers == {"states", "components", "routines"}

_entity_lookup(d, entity) == IF entity = "component" THEN Keys(d.components) ELSE Keys(d.routines)

\* a create_routine that does not look the executor up
create_routine_unchecked(d, data) ==
    IF ~Binds(data, {"name", "interval", "entity", "executor", "operation", "kwargs"}, {})
    THEN Failed(d, "TypeError")
    ELSE Done([d EXCEPT !.routines = OdSet(@, data.name[2],
              <<data.entity, data.executor, data.operation, data.kwargs, data.interval>>)], None)

create_routine(d, data) ==
    IF ~Binds(data, {"name", "interval", "entity", "executor", "operation", "kwargs"}, {})
    THEN Failed(d, "TypeError")
    ELSE IF data.entity[2] \in _exe_handlers
            /\ data.executor[2] \notin _entity_lookup(d, data.entity[2])
    THEN Failed(d, "RuntimeError")
    ELSE Done([d EXCEPT !.routines =
                    OdSet(@, data.name[2],
                          <<data.entity, data.executor, data.operation, data.kwargs, data.interval>>)],
              None)

create_component(d, data) ==
    IF ~Binds(data, {"name", "type"}, {"setup"}) THEN Failed(d, "TypeError")
    ELSE IF data.type[2] \notin DOMAIN supported_components THEN Failed(d, "KeyError")
    ELSE LET setup == IF "setup" \in DOMAIN data /\ data.setup # None
                      THEN data.setup[2] ELSE EmptyDict
             made == new_component(supported_components[data.type[2]], setup)
         IN  IF made.exc # "none" THEN Failed(d, made.exc)
             ELSE Done([d EXCEPT !.components = OdSet(@, data.name[2], made.component)], None)

delete_routine(d, name) ==
    Done(IF name \in Keys(d.routines) THEN [d EXCEPT !.routines = OdDel(@, name)] ELSE d, None)

delete_component(d, name) ==
    Done(IF name \in Keys(d.components) THEN [d EXCEPT !.components = OdDel(@, name)] ELSE d, None)

execute_component(d, name, operation, kwargs) ==
    IF name \notin Keys(d.components) THEN Failed(d, "RuntimeError")
    ELSE LET component == Lookup(d.components, name) IN
         IF component.class \notin Executable THEN Failed(d, "RuntimeError")
         ELSE LET after == execute(component, operation, IF kwargs = None THEN EmptyDict ELSE kwargs[2]) IN
              IF after.exc # "none" THEN Failed(d, after.exc)
              ELSE Done([d EXCEPT !.components = OdSet(@, name, after.component)], None)

get_routines(d) == KeyList(d.routines)
get_components(d) == KeyList(d.components)
get_states(d, level) ==
    DictV([name \in Keys(d.components) |-> read(Lookup(d.components, name), level)])

\* _Driver.get: a field without a handler is a KeyError
get(d, fields, level) ==
    IF \E i \in 1..Len(fields) : fields[i][2] \notin _get_handlers THEN Failed(d, "KeyError")
    ELSE Done(d, DictV([field \in {fields[i][2] : i \in 1..Len(fields)} |->
                            CASE field = "states" -> get_states(d, level)
                              [] field = "components" -> get_components(d)
                              [] field = "routines" -> get_routines(d)]))

\* _request_handlers[method](**kwargs): the lookup of the method and, in the
\* lambdas, of the entity are plain dict lookups, a KeyError when absent
_request_handlers(d, method, kwargs, level) ==
    CASE method = "get" ->
            IF ~Binds(kwargs, {"fields"}, {}) THEN Failed(d, "TypeError")
            ELSE get(d, kwargs.fields[2], level)
      [] method = "exe" ->
            IF ~Binds(kwargs, {"entity", "name", "operation"}, {"kwargs"}) THEN Failed(d, "TypeError")
            ELSE IF kwargs.entity[2] \notin _exe_handlers THEN Failed(d, "KeyError")
            ELSE execute_component(d, kwargs.name[2], kwargs.operation[2],
                                   IF "kwargs" \in DOMAIN kwargs THEN kwargs.kwargs ELSE None)
      [] method = "delete" ->
            IF ~Binds(kwargs, {"entity", "name"}, {}) THEN Failed(d, "TypeError")
            ELSE IF kwargs.entity[2] \notin _delete_handlers THEN Failed(d, "KeyError")
            ELSE IF kwargs.entity[2] = "component" THEN delete_component(d, kwargs.name[2])
            ELSE delete_routine(d, kwargs.name[2])
      [] method = "create" ->
            IF ~Binds(kwargs, {"entity", "data"}, {}) THEN Failed(d, "TypeError")
            ELSE IF kwargs.entity[2] \notin _create_handlers THEN Failed(d, "KeyError")
            ELSE IF kwargs.entity[2] = "component" THEN create_component(d, kwargs.data[2])
            ELSE create_routine(d, kwargs.data[2])
      [] OTHER -> Failed(d, "KeyError")

\* a _handle_received_data whose response is the result of the last get alone
RECURSIVE _handle_received_data_last(_, _, _, _)
_handle_received_data_last(received, d, response, level) ==
    IF received = <<>> THEN Done(d, DictV(response))
    ELSE LET item == Head(received) IN
         IF TypeOf(item) # "list" THEN Failed(d, "TypeError")
         ELSE IF Len(item[2]) # 2 THEN Failed(d, "ValueError")
         ELSE IF TypeOf(item[2][1]) # "str" \/ TypeOf(item[2][2]) # "dict" THEN Failed(d, "TypeError")
         ELSE LET method == item[2][1][2]
                  r == _request_handlers(d, method, item[2][2][2], level)
              IN  IF r.exc # "none" THEN r
                  ELSE _handle_received_data_last(
                           Tail(received), r.driver,
                           IF method \in retrieval_methods /\ r.result # None
                           THEN r.result[2] ELSE response,
                           level)

\* _handle_received_data: the requests of a batch in order, each one a pair
\* unpacked into method and kwargs; the first exception ends the batch and
\* leaves what the requests before it did
RECURSIVE _handle_received_data(_, _, _, _)
_handle_received_data(received, d, response, level) ==
    IF received = <<>> THEN Done(d, DictV(response))
    ELSE LET item == Head(received) IN
         IF TypeOf(item) # "list" THEN Failed(d, "TypeError")
         ELSE IF Len(item[2]) # 2 THEN Failed(d, "ValueError")
         ELSE IF TypeOf(item[2][1]) # "str" \/ TypeOf(item[2][2]) # "dict" THEN Failed(d, "TypeError")
         ELSE LET method == item[2][1][2]
                  r == _request_handlers(d, method, item[2][2][2], level)
              IN  IF r.exc # "none" THEN r
                  ELSE _handle_received_data(
                           Tail(received), r.driver,
                           IF method \in retrieval_methods /\ r.result # None
                           THEN DictUpdate(response, r.result[2]) ELSE response,
                           level)

\* the except clause of _on_receive: the exceptions it reports in the reply
\* (those of msgpack are subclasses of ValueError)
on_receive_catches(exception) == exception \in {"RuntimeError", "RuntimeWarning", "ValueError"}

\* the time the clock gives when the request is received and when the reply is sent
ReceivedTime == FloatV(1)
SentTime == FloatV(2)

\* an _on_receive that answers a failed batch with an empty response
driver_on_receive_partial(received, d, level) ==
    LET decoded == decode_transaction("client", received)
        handled == IF IsRaise(decoded) THEN Failed(d, decoded[2])
                   ELSE IF TypeOf(decoded[2].input) # "list" THEN Failed(d, "TypeError")
                   ELSE _handle_received_data(decoded[2].input[2], d, EmptyDict, level)
        feedback_to_send ==
            encoded("server",
                    DictV([received_time |-> ReceivedTime,
                           sent_time |-> SentTime,
                           response |-> IF handled.exc = "none" THEN handled.result
                                        ELSE DictV(EmptyDict),
                           error |-> IF handled.exc = "none" THEN None ELSE StrV(handled.exc)]))
    IN  IF handled.exc # "none" /\ ~on_receive_catches(handled.exc)
        THEN [exc |-> handled.exc, reply |-> None, driver |-> handled.driver]
        ELSE IF IsRaise(feedback_to_send)
        THEN [exc |-> feedback_to_send[2], reply |-> None, driver |-> handled.driver]
        ELSE [exc |-> "none", reply |-> feedback_to_send, driver |-> handled.driver]

\* _on_receive of the driver: the exception that leaves it (or "none"), the
\* bytes returned and the driver afterwards
driver_on_receive(received, d, level) ==
    LET decoded == decode_transaction("client", received)
        handled == IF IsRaise(decoded) THEN Failed(d, decoded[2])
                   ELSE IF TypeOf(decoded[2].input) # "list" THEN Failed(d, "TypeError")
                   ELSE _handle_received_data(decoded[2].input[2], d, EmptyDict, level)
        feedback_to_send ==
            encoded("server",
                    DictV([received_time |-> ReceivedTime,
                           sent_time |-> SentTime,
                           response |-> handled.result,
                           error |-> IF handled.exc = "none" THEN None ELSE StrV(handled.exc)]))
    IN  IF handled.exc # "none" /\ ~on_receive_catches(handled.exc)
        THEN [exc |-> handled.exc, reply |-> None, driver |-> handled.driver]
        ELSE IF IsRaise(feedback_to_send)
        THEN [exc |-> feedback_to_send[2], reply |-> None, driver |-> handled.driver]
        ELSE [exc |-> "none", reply |-> feedback_to_send, driver |-> handled.driver]

----------------------------------------------------------------------------
(* The requests a controller sends the driver *)

Req(method, kwargs) == ListV(<<StrV(method), DictV(kwargs)>>)

CreateLed == Req("create", [entity |-> StrV("component"),
                            data |-> DictV([name |-> StrV("led1"), type |-> StrV("led"),
                                            setup |-> DictV([trigger_pin |-> IntV(1)])])])
CreateSwitch == Req("create", [entity |-> StrV("component"),
                               data |-> DictV([name |-> StrV("sw1"), type |-> StrV("switch"),
                                               setup |-> DictV([input_pin |-> IntV(2)])])])
CreateRoutine == Req("create", [entity |-> StrV("routine"),
                                data |-> DictV([name |-> StrV("r1"), interval |-> IntV(1),
                                                entity |-> StrV("component"),
                                                executor |-> StrV("led1"),
                                                operation |-> StrV("toggle"),
                                                kwargs |-> DictV(EmptyDict)])])
Exe(entity, name, operation) ==
    Req("exe", [entity |-> StrV(entity), name |-> StrV(name), operation |-> StrV(operation)])
Delete(entity, name) == Req("delete", [entity |-> StrV(entity), name |-> StrV(name)])
Get(fields) == Req("get", [fields |-> ListV(fields)])

UnknownMethod == Req("reboot", EmptyDict)
UnknownEntity == {Exe("gizmo", "led1", "toggle"), Delete("gizmo", "led1"),
                  Req("create", [entity |-> StrV("gizmo"), data |-> DictV(EmptyDict)])}
UnknownOperation == Exe("component", "led1", "explode")

RequestPool ==
    { CreateLed, CreateSwitch, CreateRoutine,
      Exe("component", "led1", "toggle"), Exe("component", "sw1", "toggle"),
      Delete("component", "led1"), Delete("routine", "r1"),
      Get(<<StrV("states")>>), Get(<<StrV("components"), StrV("routines")>>),
      UnknownMethod, UnknownOperation } \cup UnknownEntity

\* the batches of at most MaxBatch requests
Batches == UNION {[1..n -> RequestPool] : n \in 0..MaxBatch}

\* what the driver's server can be handed: an encoded client transaction, or
\* bytes that are none
DriverInputs ==
    {msgpack_dumps(DictV([input |-> ListV(batch)])) : batch \in Batches}
        \cup {Bytes(Junk), Bytes(IntV(66)), msgpack_dumps(DictV([input |-> None])),
              msgpack_dumps(DictV(EmptyDict))}

----------------------------------------------------------------------------
(* The driver's server: one request at a time (socketserver.TCPServer), each  *)
(* handed to _on_receive; an exception that leaves the handler is reported by *)
(* the server, which closes the connection without a reply and serves on      *)

Driver == [components |-> components, routines |-> routines]

DriverReceive ==
    /\ served < MaxServed
    /\ \E received \in DriverInputs, level \in BOOLEAN :
         LET r == driver_on_receive(received, Driver, level) IN
         /\ components' = r.driver.components
         /\ routines' = r.driver.routines
         /\ driver_reply' = [batch |-> received, exc |-> r.exc, reply |-> r.reply,
                              level |-> level, before |-> Driver]
    /\ served' = served + 1
    /\ UNCHANGED <<graph, conditional_edges, handlers, gate_client, requests, is_busy,
                   generation_count, fallbacks, flow, last, tx, clients, call, scheduler>>

InitDriver == InitWith(ConcNetworks)
NextDriver == DriverReceive
SpecDriver == InitDriver /\ [][NextDriver]_vars

----------------------------------------------------------------------------
(* core/transactions.py: a Transaction object through its life.  tx holds    *)
(* the object (alive once __init__ has returned), the last operation on it,  *)
(* that operation's argument and exception, the fields before it and what it *)
(* returned.                                                                 *)

\* the values a field is given
FieldValues == {None, FloatV(1), StrV("e"), DictV(EmptyDict), ListV(<<>>)}
FieldKeys == {"received_time", "sent_time", "response", "error", "input", "extra"}

\* the queues a gate builds: empty, one request, the queue of a RequestFactory
Queues == {<<>>, request(DriverClient, <<>>, "exe", [name |-> StrV("led1")]).requests,
           FactoryRequests}

\* the keyword arguments Transaction is constructed with
InitKwargs ==
    {EmptyDict} \cup {Dict1(k, v) : k \in FieldKeys, v \in FieldValues}
        \cup {[input |-> ListV(q)] : q \in Queues}
        \cup {ServerOk, ServerError}

\* the mappings that arrive: every key set that is the schema's, lacks one of
\* its fields or has one more; every field null, of its declared type, or of
\* another type
Arriving(key, choice) ==
    CASE choice = "null" -> None
      [] choice = "typed" ->
            (CASE key \in {"received_time", "sent_time"} -> FloatV(1)
               [] key = "response" -> DictV(EmptyDict)
               [] key = "input" -> ListV(<<>>)
               [] OTHER -> StrV("e"))
      [] choice = "mistyped" ->
            (CASE key \in {"received_time", "sent_time"} -> IntV(1)
               [] key = "response" -> ListV(<<>>)
               [] key = "input" -> DictV(EmptyDict)
               [] OTHER -> FloatV(1))
KeySets(structure) ==
    LET fields == DOMAIN _structures(structure) IN
    {fields, fields \cup {"extra"}} \cup {fields \ {k} : k \in fields}
Inbound(structure) ==
    UNION {{[k \in ks |-> Arriving(k, c[k])] : c \in [ks -> {"null", "typed", "mistyped"}]} :
           ks \in KeySets(structure)}

TxInit ==
    /\ \E structure \in {"client", "server"}, kwargs \in InitKwargs :
         LET made == Transaction(structure, kwargs) IN
         tx' = [alive |-> ~IsRaise(made), structure |-> structure,
                fields |-> IF IsRaise(made) THEN EmptyFn ELSE made[2],
                op |-> "init", arg |-> DictV(kwargs),
                exc |-> IF IsRaise(made) THEN made[2] ELSE "none",
                prev |-> EmptyFn, out |-> None]
    /\ UNCHANGED <<requests, is_busy, generation_count, flow, last>>
    /\ UNCHANGED <<graph, conditional_edges, handlers, gate_client, fallbacks, components,
                   routines, driver_reply, served, clients, call, scheduler>>

\* an assignment that checks nothing
setitem_unchecked(structure, fields, key, value) ==
    [exc |-> "none", fields |-> SetItem(fields, key, value)]

\* Transaction.__setitem__
setitem(structure, fields, key, value) ==
    IF ~is_valid_entry(structure, key, value)
    THEN [exc |-> "ValueError", fields |-> fields]
    ELSE [exc |-> "none", fields |-> SetItem(fields, key, value)]

TxSetItem ==
    /\ tx.alive
    /\ \E key \in FieldKeys, value \in FieldValues :
         LET r == setitem(tx.structure, tx.fields, key, value) IN
         tx' = [tx EXCEPT !.fields = r.fields, !.op = "setitem", !.arg = <<key, value>>,
                          !.exc = r.exc, !.prev = tx.fields, !.out = None]
    /\ UNCHANGED <<requests, is_busy, generation_count, flow, last>>
    /\ UNCHANGED <<graph, conditional_edges, handlers, gate_client, fallbacks, components,
                   routines, driver_reply, served, clients, call, scheduler>>

TxEncoded ==
    /\ tx.alive
    /\ LET out == encoded(tx.structure, DictV(tx.fields)) IN
       tx' = [tx EXCEPT !.op = "encoded", !.arg = None, !.prev = tx.fields, !.out = out,
                        !.exc = IF IsRaise(out) THEN out[2] ELSE "none"]
    /\ UNCHANGED <<requests, is_busy, generation_count, flow, last>>
    /\ UNCHANGED <<graph, conditional_edges, handlers, gate_client, fallbacks, components,
                   routines, driver_reply, served, clients, call, scheduler>>

\* Transaction.decode of the bytes encoded() has just returned
TxDecodeEncoded ==
    /\ tx.alive /\ tx.op = "encoded" /\ tx.exc = "none"
    /\ LET got == decode_transaction(tx.structure, tx.out) IN
       tx' = [tx EXCEPT !.op = "decode_encoded", !.arg = tx.out, !.prev = tx.fields,
                        !.out = got, !.exc = IF IsRaise(got) THEN got[2] ELSE "none"]
    /\ UNCHANGED <<requests, is_busy, generation_count, flow, last>>
    /\ UNCHANGED <<graph, conditional_edges, handlers, gate_client, fallbacks, components,
                   routines, driver_reply, served, clients, call, scheduler>>

\* Transaction.decode of bytes that arrive
TxDecode ==
    /\ \E structure \in {"client", "server"} : \E mapping \in Inbound(structure) :
         LET got == decode_transaction(structure, msgpack_dumps(DictV(mapping))) IN
         tx' = [alive |-> ~IsRaise(got), structure |-> structure,
                fields |-> IF IsRaise(got) THEN EmptyFn ELSE got[2],
                op |-> "decode", arg |-> DictV(mapping),
                exc |-> IF IsRaise(got) THEN got[2] ELSE "none",
                prev |-> EmptyFn, out |-> got]
    /\ UNCHANGED <<requests, is_busy, generation_count, flow, last>>
    /\ UNCHANGED <<graph, conditional_edges, handlers, gate_client, fallbacks, components,
                   routines, driver_reply, served, clients, call, scheduler>>

InitTx == InitWith(ConcNetworks)
NextTx == TxInit \/ TxSetItem \/ TxEncoded \/ TxDecodeEncoded \/ TxDecode
SpecTx == InitTx /\ [][NextTx]_vars

----------------------------------------------------------------------------
(* control/gatenetwork.py and control/graph.py: the calls that build and      *)
(* change a network.  Each gives the exception raised (or "none") and the     *)
(* state it leaves.                                                           *)

client_types == {"tcp"}

\* GateNetwork.client_exists
client_exists(cl, type, target_hostname, target_port) ==
    \E label \in DOMAIN cl :
        cl[label][2] = <<target_hostname, target_port>> /\ cl[label][1] = type

\* GateNetwork.define_client: client_types[type] is looked up when an address
\* matches and when the client is made
define_client(cl, label, target_hostname, target_port, type) ==
    IF type \notin client_types
    THEN [exc |-> "KeyError", clients |-> cl]
    ELSE IF client_exists(cl, type, target_hostname, target_port)
    THEN [exc |-> "RuntimeError", clients |-> cl]
    ELSE [exc |-> "none", clients |-> SetItem(cl, label, Client(type, target_hostname, target_port))]

\* GateNetwork.bind_to_client
bind_to_client(gc, cl, gate_key, client_label) ==
    IF gate_key \notin DOMAIN gc \/ client_label \notin DOMAIN cl
    THEN [exc |-> "KeyError", gate_client |-> gc]
    ELSE [exc |-> "none", gate_client |-> [gc EXCEPT ![gate_key] = cl[client_label]]]

\* a client object (ClientABC) has no __iter__: it cannot be unpacked
Unpacks(client) == FALSE

\* GateNetwork.delete_client: the label is popped, the client popped is
\* unpacked into type, hostname and port, and the gates bound to a client of
\* that type and address are unbound
delete_client(gc, cl, label) ==
    IF label \notin DOMAIN cl THEN [exc |-> "KeyError", clients |-> cl, gate_client |-> gc]
    ELSE IF ~Unpacks(cl[label])
    THEN [exc |-> "TypeError", clients |-> DelItem(cl, label), gate_client |-> gc]
    ELSE [exc |-> "none", clients |-> DelItem(cl, label),
          gate_client |-> [g \in DOMAIN gc |-> IF gc[g] = cl[label] THEN None ELSE gc[g]]]

\* a removal that also takes the key out of every other node's successor set
remove_node_cascading(g, key) ==
    [k \in DOMAIN g \ {key} |-> g[k] \ {key}]

\* DirectedGraph.remove_node
remove_node(g, key) == IF key \in DOMAIN g THEN DelItem(g, key) ELSE g

\* DirectedGraph.remove_edge: set.remove of a key that is absent is a KeyError
graph_remove_edge(g, from_key, to_key) ==
    IF from_key \notin DOMAIN g \/ to_key \notin g[from_key]
    THEN [exc |-> "KeyError", graph |-> g]
    ELSE [exc |-> "none", graph |-> [g EXCEPT ![from_key] = @ \ {to_key}]]

\* GateNetwork.remove_edge: the condition is deleted first
remove_edge(net, from_gate, to_gate) ==
    LET cond == IF <<from_gate, to_gate>> \in DOMAIN net.conditional_edges
                THEN DelItem(net.conditional_edges, <<from_gate, to_gate>>)
                ELSE net.conditional_edges
        r == graph_remove_edge(net.graph, from_gate, to_gate)
    IN  [exc |-> r.exc, graph |-> r.graph, conditional_edges |-> cond]

----------------------------------------------------------------------------
(* The calls as actions on a network on which nothing runs *)

\* DirectedGraph._get_paths_util(key, paths, prepended, start): exc is the
\* exception raised, ret the list returned (<<>> for None) and paths the lists
\* appended to paths.  A key other than start that has out-neighbours and is
\* already in prepended is reached again and again, each time one call deeper:
\* the recursion ends in Python's RecursionError.  start is NoGate for None.
RECURSIVE _get_paths_util(_, _, _, _)
_get_paths_util(g, key, prepended, start) ==
    LET path == Append(prepended, key)
        below == [child \in g[key] |->
                    _get_paths_util(g, child, path, IF start = NoGate THEN key ELSE start)]
    IN  IF key \notin DOMAIN g THEN [exc |-> "KeyError", ret |-> <<>>, paths |-> {}]
        ELSE IF g[key] = {} \/ key = start THEN [exc |-> "none", ret |-> path, paths |-> {}]
        ELSE IF \E i \in 1..Len(prepended) : prepended[i] = key
        THEN [exc |-> "RecursionError", ret |-> <<>>, paths |-> {}]
        ELSE IF \E child \in g[key] : below[child].exc = "KeyError"
        THEN [exc |-> "KeyError", ret |-> <<>>, paths |-> {}]
        ELSE IF \E child \in g[key] : below[child].exc # "none"
        THEN [exc |-> "RecursionError", ret |-> <<>>, paths |-> {}]
        ELSE [exc |-> "none", ret |-> <<>>,
              paths |-> UNION {below[child].paths \cup
                               (IF below[child].ret # <<>> THEN {below[child].ret} ELSE {}) :
                               child \in g[key]}]

\* get_complete_paths(key): the value returned by the first call is dropped
get_complete_paths(g, key) == _get_paths_util(g, key, <<>>, NoGate)

\* get_all_complete_paths(): the paths from every key, as a set
get_all_complete_paths(g) ==
    IF \E key \in DOMAIN g : get_complete_paths(g, key).exc # "none"
    THEN [exc |-> (CHOOSE e \in {get_complete_paths(g, key).exc : key \in DOMAIN g} : e # "none"),
          paths |-> {}]
    ELSE [exc |-> "none", paths |-> UNION {get_complete_paths(g, key).paths : key \in DOMAIN g}]

\* the property is_acyclic: False when a path ends where it began
is_acyclic(g) ==
    LET all == get_all_complete_paths(g) IN
    [exc |-> all.exc,
     out |-> all.exc = "none" /\ ~\E path \in all.paths : path[1] = path[Len(path)]]

Snapshot == [graph |-> graph, conditional_edges |-> conditional_edges,
             clients |-> clients, gate_client |-> gate_client, routines |-> routines]
Called(op, args, exc) ==
    call' = [op |-> op, args |-> args, exc |-> exc, out |-> None, n |-> call.n + 1,
             before |-> Snapshot]

NotServing == UNCHANGED <<is_busy, generation_count, flow, last, driver_reply, served, tx,
                          scheduler>>
NotRunning == NotServing /\ UNCHANGED <<components, routines>>

Labels == {"d1", "d2"}
Hosts == {"h1", "h2"}
Keys3 == {"A", "B", "C"}

DefineClient ==
    /\ call.n < MaxCalls
    /\ \E label \in Labels, host \in Hosts, type \in {"tcp", "udp"} :
         LET r == define_client(clients, label, host, 1, type) IN
         /\ clients' = r.clients
         /\ Called("define_client", <<label, host, 1, type>>, r.exc)
    /\ UNCHANGED <<graph, conditional_edges, handlers, gate_client, requests, fallbacks>>
    /\ NotRunning

DeleteClient ==
    /\ call.n < MaxCalls
    /\ \E label \in Labels :
         LET r == delete_client(gate_client, clients, label) IN
         /\ clients' = r.clients
         /\ gate_client' = r.gate_client
         /\ Called("delete_client", <<label>>, r.exc)
    /\ UNCHANGED <<graph, conditional_edges, handlers, requests, fallbacks>>
    /\ NotRunning

BindToClient ==
    /\ call.n < MaxCalls
    /\ \E gate_key \in Keys3, label \in Labels :
         LET r == bind_to_client(gate_client, clients, gate_key, label) IN
         /\ gate_client' = r.gate_client
         /\ Called("bind_to_client", <<gate_key, label>>, r.exc)
    /\ UNCHANGED <<graph, conditional_edges, handlers, requests, clients, fallbacks>>
    /\ NotRunning

\* GateNetwork.add_gate(key): a new Gate under the key, whatever was there
AddGate ==
    /\ call.n < MaxCalls
    /\ \E key \in Keys3 :
         /\ graph' = add_node(graph, key)
         /\ handlers' = SetItem(handlers, key, NoHandler)
         /\ gate_client' = SetItem(gate_client, key, None)
         /\ requests' = SetItem(requests, key, <<>>)
         /\ Called("add_gate", <<key>>, "none")
    /\ UNCHANGED <<conditional_edges, clients, fallbacks>>
    /\ NotRunning

\* GateNetwork.remove_gate(key)
RemoveGate ==
    /\ call.n < MaxCalls
    /\ \E key \in Keys3 :
         /\ graph' = remove_node(graph, key)
         /\ handlers' = [g \in DOMAIN graph' |-> handlers[g]]
         /\ gate_client' = [g \in DOMAIN graph' |-> gate_client[g]]
         /\ requests' = [g \in DOMAIN graph' |-> requests[g]]
         /\ Called("remove_gate", <<key>>, "none")
    /\ UNCHANGED <<conditional_edges, clients, fallbacks>>
    /\ NotRunning

AddEdge ==
    /\ call.n < MaxCalls
    /\ \E from_gate \in Keys3, to_gate \in Keys3 :
       \E c \in {<<NoKey, None, NoGate>>, <<X, IntV(1), NoGate>>, <<X, IntV(1), "C">>} :
         LET r == add_edge([graph |-> graph, conditional_edges |-> conditional_edges],
                           from_gate, to_gate, c[1], c[2], "eq", c[3])
         IN  /\ graph' = r.graph
             /\ conditional_edges' = r.conditional_edges
             /\ fallbacks' = IF r.exc = "none" /\ c[3] # NoGate
                             THEN fallbacks \cup {<<from_gate, to_gate, c[3]>>} ELSE fallbacks
             /\ Called("add_edge", <<from_gate, to_gate, c[1], c[2], c[3]>>, r.exc)
    /\ UNCHANGED <<handlers, gate_client, requests, clients>>
    /\ NotRunning

RemoveEdge ==
    /\ call.n < MaxCalls
    /\ \E from_gate \in Keys3, to_gate \in Keys3 :
         LET r == remove_edge([graph |-> graph, conditional_edges |-> conditional_edges],
                              from_gate, to_gate)
         IN  /\ graph' = r.graph
             /\ conditional_edges' = r.conditional_edges
             /\ Called("remove_edge", <<from_gate, to_gate>>, r.exc)
    /\ UNCHANGED <<handlers, gate_client, requests, clients, fallbacks>>
    /\ NotRunning

\* the client table of a network of two gates
InitClients == InitWith(ConcNetworks)
NextClients == DefineClient \/ DeleteClient \/ BindToClient
SpecClients == InitClients /\ [][NextClients]_vars

\* the gates and edges of a network that starts with the gates A, B and C
InitEdges == InitWith({Network(Net0(Keys3), NoHandlers(Keys3), NoClients(Keys3), {})})
NextEdges == AddGate \/ RemoveGate \/ AddEdge \/ RemoveEdge
SpecEdges == InitEdges /\ [][NextEdges]_vars

\* the property is_acyclic is read: nothing changes but the record of the call
IsAcyclic ==
    /\ LET r == is_acyclic(graph) IN
        call' = [call EXCEPT !.op = "is_acyclic", !.args = <<>>, !.exc = r.exc,
                             !.out = BoolV(r.out), !.before = Snapshot]
    /\ UNCHANGED <<graph, conditional_edges, handlers, gate_client, requests, clients, fallbacks>>
    /\ NotRunning

\* get_complete_paths(key) is called: nothing changes but the record of the call
GetCompletePaths ==
    /\ \E key \in DOMAIN graph :
         call' = [call EXCEPT !.op = "get_complete_paths", !.args = <<key>>,
                              !.exc = get_complete_paths(graph, key).exc,
                              !.out = None, !.before = Snapshot]
    /\ UNCHANGED <<graph, conditional_edges, handlers, gate_client, requests, clients, fallbacks>>
    /\ NotRunning

\* the edges of a network of the gates A, B and C, its paths and whether it is
\* acyclic
NextGraph == AddEdge \/ RemoveEdge \/ IsAcyclic \/ GetCompletePaths
SpecGraph == InitEdges /\ [][NextGraph]_vars

----------------------------------------------------------------------------
(* core/utils.py: get_nested called on routes and mappings of every shape     *)

Routes == {<<"a">>, <<"b">>, <<"a", "b">>, <<"a", "b", "c">>}
LookupValues ==
    {None, IntV(5), StrV("xb"), StrV("xyz"), ListV(<<StrV("b")>>), DictV(EmptyDict),
     DictV(Dict1("b", IntV(1))), DictV(Dict1("b", None)), DictV(Dict1("b", DictV(Dict1("c", IntV(1)))))}
LookupMappings == UNION {[S -> LookupValues] : S \in SUBSET {"a", "b"}}

GetNested ==
    /\ \E route \in Routes, mapping \in LookupMappings :
         LET got == get_nested(route, mapping) IN
         call' = [call EXCEPT !.op = "get_nested", !.args = <<route, mapping>>,
                              !.exc = IF IsRaise(got) THEN got[2] ELSE "none",
                              !.out = IF IsRaise(got) THEN None ELSE got,
                              !.before = Snapshot]
    /\ UNCHANGED <<graph, conditional_edges, handlers, gate_client, requests, clients, fallbacks>>
    /\ NotRunning

NextLookup == GetNested
SpecLookup == InitEdges /\ [][NextLookup]_vars

----------------------------------------------------------------------------
(* embedded/driver.py: the methods of _Driver that make and delete routines   *)
(* and components, called one at a time                                       *)

RoutineData ==
    { [name |-> StrV(name), interval |-> IntV(interval), entity |-> StrV(entity),
       executor |-> StrV(executor), operation |-> StrV("toggle"), kwargs |-> DictV(EmptyDict)] :
      name \in {"r1", "r2"}, interval \in {1, 2}, entity \in {"component", "routine"},
      executor \in {"led1", "r1"} }

NetUntouched == UNCHANGED <<graph, conditional_edges, handlers, gate_client, requests,
                            clients, fallbacks>>

CreateRoutineCall ==
    /\ call.n < MaxCalls
    /\ \E data \in RoutineData :
         LET r == create_routine(Driver, data) IN
         /\ routines' = r.driver.routines
         /\ components' = r.driver.components
         /\ Called("create_routine", data, r.exc)
    /\ NetUntouched /\ NotServing

CreateComponentCall ==
    /\ call.n < MaxCalls
    /\ LET r == create_component(Driver, CreateLed[2][2][2].data[2]) IN
         /\ routines' = r.driver.routines
         /\ components' = r.driver.components
         /\ Called("create_component", CreateLed[2][2][2].data[2], r.exc)
    /\ NetUntouched /\ NotServing

DeleteCall ==
    /\ call.n < MaxCalls
    /\ \E entity \in {"component", "routine"}, name \in {"led1", "r1"} :
         LET r == IF entity = "component" THEN delete_component(Driver, name)
                  ELSE delete_routine(Driver, name)
         IN  /\ routines' = r.driver.routines
             /\ components' = r.driver.components
             /\ Called("delete_" \o entity, <<name>>, r.exc)
    /\ NetUntouched /\ NotServing

InitRoutines == InitWith(ConcNetworks)
NextRoutines == CreateRoutineCall \/ CreateComponentCall \/ DeleteCall
SpecRoutines == InitRoutines /\ [][NextRoutines]_vars

----------------------------------------------------------------------------
(* embedded/driver.py: _RoutinesThread.run.  Time is counted in ticks of a    *)
(* quarter of a second since start_time; the thread reads the clock once for  *)
(* every routine of a pass and the clock moves while the thread sleeps.       *)
(* scheduler holds the position in run, the locals to_update and the iterator *)
(* of the for loop (i entries given out of a dict of size entries), the entry *)
(* about to be fired, and what is recorded of the past: the last check, the   *)
(* number of times each routine was fired since the first check of its        *)
(* interval and the tick of that check, and whether each name is armed (not    *)
(* fired since its last check with a non-zero value), and whether a pass was   *)
(* made at every tick so far; whether the executor of the entry last checked   *)
(* was a component then; and the exception that ended the thread, with the     *)
(* entry whose firing raised it.                                               *)

TicksPerSecond == 4

\* a float that is not whole, n/d seconds
FractionV(n, d) == FloatV(<<n, d>>)

\* seconds, as an int or as a float, in ticks
Ticks(v) == IF TypeOf(v) = "int" THEN v[2] * TicksPerSecond
            ELSE (v[2][1] * TicksPerSecond) \div v[2][2]

\* round(t / TicksPerSecond): Python rounds a half to the even neighbour
round(t) ==
    LET q == t \div TicksPerSecond
        r == t % TicksPerSecond
    IN  IF 2 * r < TicksPerSecond THEN q
        ELSE IF 2 * r > TicksPerSecond THEN q + 1
        ELSE IF q % 2 = 0 THEN q ELSE q + 1

\* round((current_time - start_time) % time_interval)
interval_mod(elapsed, time_interval) == round(elapsed % Ticks(time_interval))

\* a routine fired whenever the value is 0
fires_at_every_zero(flag, mod) == mod = 0

\* if not to_update[key] and interval_mod == 0
fires(flag, mod) == ~flag /\ mod = 0

DriverUntouched == UNCHANGED <<driver_reply, served>>
NetIdle == NetUntouched /\ UNCHANGED <<is_busy, generation_count, flow, last, tx, call>>

\* _routines.start(): run sets is_running, takes start_time, empties to_update
SchedStart ==
    /\ scheduler.pc = "stopped"
    /\ scheduler' = [scheduler EXCEPT !.pc = "loop"]
    /\ UNCHANGED <<components, routines>>
    /\ NetIdle /\ DriverUntouched

\* the head of the while loop: the loop over routines.keys() deletes nothing
\* (no key of the dict is missing from the dict), then the for loop takes an
\* iterator over routines.items()
SchedLoop ==
    /\ scheduler.pc = "loop"
    /\ scheduler' = [scheduler EXCEPT !.pc = "iter", !.i = 0, !.size = Len(routines)]
    /\ UNCHANGED <<components, routines>>
    /\ NetIdle /\ DriverUntouched

\* one turn of the for loop: the iterator raises RuntimeError if the dict
\* changed size, ends the pass, or gives the next entry, which is checked
SchedNext ==
    /\ scheduler.pc = "iter"
    /\ IF Len(routines) # scheduler.size
       THEN scheduler' = [scheduler EXCEPT !.pc = "dead",
                                           !.died = [exc |-> "RuntimeError", entry |-> <<>>]]
       ELSE IF scheduler.i = scheduler.size
       THEN scheduler' = [scheduler EXCEPT !.pc = "sleep"]
       ELSE LET key == routines[scheduler.i + 1][1]
                value == routines[scheduler.i + 1][2]
                flag == IF key \in DOMAIN scheduler.to_update
                        THEN scheduler.to_update[key] ELSE FALSE
                mod == interval_mod(scheduler.elapsed, value[5])
                seen == key \in DOMAIN scheduler.since /\ scheduler.since[key][2] = value[5]
                armed == IF key \in DOMAIN scheduler.armed /\ mod = 0
                         THEN scheduler.armed[key] ELSE TRUE
                fire == fires(flag, mod)
            IN  scheduler' =
                    [scheduler EXCEPT
                        !.pc = IF fire THEN "fire" ELSE "iter",
                        !.i = @ + 1,
                        !.entry = IF fire THEN <<key, value>> ELSE <<>>,
                        !.to_update = SetItem(@, key, IF mod # 0 THEN FALSE ELSE flag),
                        !.check = [key |-> key, interval_mod |-> mod, fired |-> fire,
                                   armed |-> armed,
                                   present |-> value[2][2] \in Keys(components)],
                        !.armed = SetItem(@, key, armed /\ ~fire),
                        !.fired = SetItem(@, key, (IF seen THEN @[key] ELSE 0)
                                                   + (IF fire THEN 1 ELSE 0)),
                        !.since = IF seen THEN @
                                  ELSE SetItem(@, key, <<scheduler.elapsed, value[5]>>)]
    /\ UNCHANGED <<components, routines>>
    /\ NetIdle /\ DriverUntouched

\* a firing whose exception is caught: the thread goes on with the next entry
SchedFire_Contained ==
    /\ scheduler.pc = "fire"
    /\ LET key == scheduler.entry[1]
           value == scheduler.entry[2]
           r == _request_handlers(Driver, "exe",
                                  [entity |-> value[1], name |-> value[2],
                                   operation |-> value[3], kwargs |-> value[4]], FALSE)
       IN  IF r.exc # "none"
           THEN /\ scheduler' = [scheduler EXCEPT !.pc = "iter", !.entry = <<>>]
                /\ UNCHANGED <<components, routines>>
           ELSE /\ scheduler' = [scheduler EXCEPT !.pc = "iter", !.entry = <<>>,
                                                  !.to_update = SetItem(@, key, TRUE)]
                /\ components' = r.driver.components
                /\ routines' = r.driver.routines
    /\ NetIdle /\ DriverUntouched

\* _request_handlers["exe"](entity, executor, operation, kwargs), then
\* to_update[key] = True; an exception leaves run and ends the thread
SchedFire ==
    /\ scheduler.pc = "fire"
    /\ LET key == scheduler.entry[1]
           value == scheduler.entry[2]
           r == _request_handlers(Driver, "exe",
                                  [entity |-> value[1], name |-> value[2],
                                   operation |-> value[3], kwargs |-> value[4]], FALSE)
       IN  IF r.exc # "none"
           THEN /\ scheduler' = [scheduler EXCEPT !.pc = "dead", !.entry = <<>>,
                                                  !.died = [exc |-> r.exc,
                                                            entry |-> scheduler.entry]]
                /\ UNCHANGED <<components, routines>>
           ELSE /\ scheduler' = [scheduler EXCEPT !.pc = "iter", !.entry = <<>>,
                                                  !.to_update = SetItem(@, key, TRUE)]
                /\ components' = r.driver.components
                /\ routines' = r.driver.routines
    /\ NetIdle /\ DriverUntouched

\* time.sleep to the next millisecond; the clock has moved on at the next pass
SchedSleep ==
    /\ scheduler.pc = "sleep"
    /\ scheduler.elapsed < MaxTicks
    /\ \E d \in 1..MaxAdvance :
         scheduler' = [scheduler EXCEPT !.pc = "loop", !.elapsed = @ + d,
                                        !.every_tick = @ /\ d = 1]
    /\ UNCHANGED <<components, routines>>
    /\ NetIdle /\ DriverUntouched

\* the routines the request flow registers while the thread runs
Intervals == {FractionV(1, 2), IntV(1)}
TimedRoutines ==
    { [name |-> StrV(name), interval |-> interval, entity |-> StrV("component"),
       executor |-> StrV("led1"), operation |-> StrV("toggle"), kwargs |-> DictV(EmptyDict)] :
      name \in {"r1", "r2"}, interval \in Intervals }
\* a routine with an operation its executor does not have, and one whose entity
\* has no exe handler
FailingRoutines ==
    { [name |-> StrV("r1"), interval |-> IntV(1), entity |-> StrV("component"),
       executor |-> StrV("led1"), operation |-> StrV("explode"), kwargs |-> DictV(EmptyDict)],
      [name |-> StrV("r1"), interval |-> IntV(1), entity |-> StrV("routine"),
       executor |-> StrV("r1"), operation |-> StrV("toggle"), kwargs |-> DictV(EmptyDict)] }
SoundRoutines ==
    { [name |-> StrV("r2"), interval |-> FractionV(1, 2), entity |-> StrV("component"),
       executor |-> StrV("led1"), operation |-> StrV("toggle"), kwargs |-> DictV(EmptyDict)] }

\* a request flow that waits while the routines thread holds an entry to fire
RequestServed_Locked ==
    /\ scheduler.pc # "fire"
    /\ \E r \in {create_component(Driver, CreateLed[2][2][2].data[2]),
                  delete_component(Driver, "led1")}
             \cup {create_routine(Driver, data) : data \in TimedRoutines} :
         /\ components' = r.driver.components
         /\ routines' = r.driver.routines
    /\ UNCHANGED scheduler
    /\ NetIdle /\ DriverUntouched

\* requests to create a component or a routine and to delete a component,
\* served between two steps of the routines thread
RequestServed ==
    /\ \E r \in {create_component(Driver, CreateLed[2][2][2].data[2]),
                  delete_component(Driver, "led1")}
             \cup {create_routine(Driver, data) : data \in TimedRoutines} :
         /\ components' = r.driver.components
         /\ routines' = r.driver.routines
    /\ UNCHANGED scheduler
    /\ NetIdle /\ DriverUntouched

InitSched == InitWith(ConcNetworks)
NextSched == SchedStart \/ SchedLoop \/ SchedNext \/ SchedFire \/ SchedSleep \/ RequestServed
SpecSched == InitSched /\ [][NextSched]_vars

\* the request flow beside the thread, with requests for the routines whose
\* firing fails and for one routine whose firing does not
RequestServedFailing ==
    /\ \E r \in {create_component(Driver, CreateLed[2][2][2].data[2]),
                  delete_component(Driver, "led1")}
             \cup {create_routine(Driver, data) : data \in FailingRoutines \cup SoundRoutines} :
         /\ components' = r.driver.components
         /\ routines' = r.driver.routines
    /\ UNCHANGED scheduler
    /\ NetIdle /\ DriverUntouched

NextSchedFailing ==
    SchedStart \/ SchedLoop \/ SchedNext \/ SchedFire \/ SchedSleep \/ RequestServedFailing
SpecSchedFailing == InitSched /\ [][NextSchedFailing]_vars

----------------------------------------------------------------------------
(* Properties of the resolution algorithm *)

Unconditional(parent, child) ==
    /\ parent \in DOMAIN graph
    /\ child \in graph[parent]
    /\ <<parent, child>> \notin DOMAIN conditional_edges
UnconditionalParents(child) == {parent \in DOMAIN graph : Unconditional(parent, child)}

\* C1: join barrier.  For a child C all of whose in-edges are unconditional and
\* come from A and B, in a run (not started at C) in which A has been activated
\* and B has not, C has not been activated and is not in completed; and when
\* the edge A -> C is traversed, the required parents are all the parents of C
\* over unconditional edges.
C1_JoinBarrier ==
    \A p \in Flows : \A A, B, C \in DOMAIN graph :
        LET f == flow[p] IN
        (A # B /\ in_neighbors(graph, C) = {A, B} /\ UnconditionalParents(C) = {A, B}
            /\ f.start # C /\ f.activations[A] > 0 /\ f.activations[B] = 0)
        => /\ f.activations[C] = 0
           /\ C \notin DOMAIN f.completed
           /\ (f.proc.gate = A => required_parents(A, C, FALSE) = UnconditionalParents(C))

\* C2: join completion.  When a run has returned in which the two unconditional
\* parents A and B of a sink C were both activated, C was activated exactly
\* once and the dict completed holds for C has the keys of A's and of B's output.
C2_JoinCompletion ==
    \A p \in Flows : \A A, B, C \in DOMAIN graph :
        LET f == flow[p] IN
        (f.pc = "returned" /\ A # B /\ graph[C] = {} /\ in_neighbors(graph, C) = {A, B}
            /\ UnconditionalParents(C) = {A, B}
            /\ f.start # C /\ f.activations[A] > 0 /\ f.activations[B] > 0)
        => /\ f.activations[C] = 1
           /\ C \in DOMAIN f.completed
           /\ (DOMAIN f.outputs[A]) \cup (DOMAIN f.outputs[B]) \subseteq DOMAIN f.heap[f.completed[C]]

\* what the condition of the edge from_gate -> to_gate gives on a dict
Test(from_gate, to_gate, result) ==
    LET c == conditional_edges[<<from_gate, to_gate>>]
        got == get_nested(c[1], result)
    IN  IF IsRaise(got) THEN "raise" ELSE evaluate(c[2], c[3], got)

\* add_edge(A, B, key, value, evaluator, fallback=C) has left both edges, both
\* with a condition
BothConditional(A, B, C) ==
    /\ {B, C} \subseteq graph[A]
    /\ {<<A, B>>, <<A, C>>} \subseteq DOMAIN conditional_edges

\* C3 as claimed: conditional routing is exclusive for every output of A.  After
\* add_edge(A, B, key, value, evaluator, fallback=C) both edges exist and carry
\* conditions, and whenever A's output has been passed on, exactly one of B and
\* C was scheduled: B if the evaluator is true of the output, C otherwise.
C3_ExclusiveForEveryOutput ==
    \A p \in Flows : \A t \in fallbacks :
        LET A == t[1]  B == t[2]  C == t[3]  pr == flow[p].proc IN
        /\ BothConditional(A, B, C)
        /\ pr.gate = A =>
            /\ (B \in pr.scheduled) # (C \in pr.scheduled)
            /\ (B \in pr.scheduled) <=> (Test(A, B, pr.result) = "true")

\* C3 as amended: the same, for every output of A on which the evaluator gives
\* an answer; where it raises (an ordering evaluator on an output in which the
\* key is absent), the run raises TypeError and neither B nor C is scheduled.
C3_ExclusiveWhenEvaluated ==
    \A p \in Flows : \A t \in fallbacks :
        LET A == t[1]  B == t[2]  C == t[3]  pr == flow[p].proc IN
        /\ BothConditional(A, B, C)
        /\ (pr.gate = A /\ Test(A, B, pr.result) # "raise") =>
            /\ ~pr.raised
            /\ (B \in pr.scheduled) # (C \in pr.scheduled)
            /\ (B \in pr.scheduled) <=> (Test(A, B, pr.result) = "true")
        /\ (pr.gate = A /\ Test(A, B, pr.result) = "raise") =>
            /\ pr.raised /\ flow[p].pc = "raised" /\ flow[p].exc = "TypeError"
            /\ pr.scheduled \cap {B, C} = {}

\* both branches have been taken: an output sent to B only, and one sent to C only
C3_Witness ==
    \E p \in Flows : \E t \in fallbacks :
        /\ flow[p].proc.gate = t[1]
        /\ flow[p].proc.scheduled = {t[3]}
        /\ last.start = t[1] /\ t[2] \in DOMAIN last.result /\ t[3] \notin DOMAIN last.result

\* C4: terminal gates.  The dict that completed holds for a gate without
\* successors is what that gate's activation returned, at every later step of
\* the run.
C4_TerminalGates ==
    \A p \in Flows : \A g \in DOMAIN flow[p].completed :
        flow[p].heap[flow[p].completed[g]] = flow[p].recorded[g]

\* C5: determinism.  In a network in which every gate has at most one
\* unconditional parent (and no gate sends), a run that has returned gives the
\* same completed map as the earlier run with the same start and payload.
C5_Determinism ==
    \A p \in Flows :
        (/\ flow[p].pc = "returned"
         /\ \A g \in DOMAIN graph : Cardinality(UnconditionalParents(g)) <= 1
         /\ \A g \in DOMAIN graph : gate_client[g] = None
         /\ last.start = flow[p].start /\ last.payload = flow[p].payload)
        => completed_value(flow[p]) = last.result

\* the gates reached from the gate key over the edges of the graph
RECURSIVE ReachedIn(_, _)
ReachedIn(reached, n) ==
    IF n = 0 THEN reached
    ELSE ReachedIn(reached \cup UNION {graph[k] : k \in reached \cap DOMAIN graph}, n - 1)
Reachable(key) == ReachedIn({key} \cap DOMAIN graph, Cardinality(DOMAIN graph))
OnCycle(key) == key \in ReachedIn(graph[key], Cardinality(DOMAIN graph))

\* no directed cycle can be reached from the gate key
AcyclicFrom(key) == \A k \in Reachable(key) \cap DOMAIN graph : ~OnCycle(k)

\* the number of edges of the longest path from key, where no cycle is reached
RECURSIVE LongestPath(_)
LongestPath(key) ==
    IF key \notin DOMAIN graph \/ graph[key] = {} THEN 0
    ELSE LET below == {LongestPath(child) : child \in graph[key]}
         IN  1 + CHOOSE n \in below : \A m \in below : m <= n

\* C21: termination on acyclic networks.  In a run started at a gate from
\* which no directed cycle can be reached, the loop of _resolve makes at most
\* (length of the longest path from the start) + 1 passes: after that many the
\* next generation is empty, and run returns completed.
C21_Terminates ==
    \A p \in Flows :
        LET f == flow[p] IN
        (f.start \in DOMAIN graph /\ AcyclicFrom(f.start) /\ f.gens > 0) =>
            /\ f.gens <= LongestPath(f.start) + 1
            /\ (f.pc = "activate" /\ f.gens = LongestPath(f.start) + 1) => f.next_gates = <<>>
            /\ f.pc = "returned" => f.reply = DictV(completed_value(f))

\* a run over a longest path of two edges has returned after three passes
C21_Witness ==
    \E p \in Flows :
        /\ flow[p].pc = "returned"
        /\ AcyclicFrom(flow[p].start)
        /\ LongestPath(flow[p].start) = 2
        /\ flow[p].gens = 3

\* the sink of the chain that begins at key: every gate on it but the last has
\* one successor, over an unconditional edge, and every gate after key has no
\* handler and no client; NoGate when key heads no such chain
RECURSIVE ChainSink(_, _, _)
ChainSink(key, first, fuel) ==
    IF ~first /\ (handlers[key] # NoHandler \/ gate_client[key] # None) THEN NoGate
    ELSE IF graph[key] = {} THEN key
    ELSE IF fuel = 0 \/ Cardinality(graph[key]) # 1 THEN NoGate
    ELSE LET child == CHOOSE c \in graph[key] : TRUE IN
         IF <<key, child>> \in DOMAIN conditional_edges THEN NoGate
         ELSE ChainSink(child, FALSE, fuel - 1)

C24_UnboundRequest ==
    [][\A p \in Flows, g \in DOMAIN graph :
          (/\ flow'[p].activations[g] = flow[p].activations[g] + 1
           /\ handlers[g] = RequestHandler
           /\ gate_client[g] = None) =>
              /\ requests'[g] = requests[g]
              /\ flow'[p].pc = "raised"
              /\ flow'[p].exc = "RuntimeError"]_vars

\* the run has activated the unbound gate B, whose transform made a request
C24_Witness ==
    \E p \in Flows :
        /\ flow[p].input.gate = "B" /\ flow[p].activations["B"] = 1
        /\ flow[p].activations["A"] = 1
        /\ handlers["B"] = RequestHandler /\ gate_client["B"] = None
        /\ flow[p].pc = "raised" /\ flow[p].exc = "RuntimeError"
        /\ requests["B"] = <<>>

\* C25: conditional edges pass the join barrier by.  When the payload of an
\* active gate P has been passed on and the condition of the edge P -> C holds
\* of it, C is in the generation scheduled next, whatever other parents C has
\* and whether or not they have fired, and P's payload is not parked in the
\* carry-overs of C
C25_ConditionalBypass ==
    \A p \in Flows : \A P \in DOMAIN graph : \A C \in graph[P] :
        LET f == flow[p] IN
        (/\ f.proc.gate = P /\ ~f.proc.raised
         /\ <<P, C>> \in DOMAIN conditional_edges
         /\ Test(P, C, f.proc.result) = "true") =>
            /\ C \in f.proc.scheduled
            /\ C \in Keys(f.next_gates)
            /\ ~(C \in DOMAIN f.carry_overs /\ P \in Keys(f.carry_overs[C]))

\* C was scheduled over its conditional edge from B while its unconditional
\* parent A has not been activated in the run
C25_Witness ==
    \E p \in Flows :
        /\ flow[p].proc.gate = "B" /\ <<"B", "C">> \in DOMAIN conditional_edges
        /\ Unconditional("A", "C") /\ flow[p].activations["A"] = 0
        /\ Test("B", "C", flow[p].proc.result) = "true"
        /\ "C" \in flow[p].proc.scheduled

\* the index of the last payload of the sequence ps that has the key k
LastWith(ps, k) == CHOOSE i \in 1..Len(ps) : k \in DOMAIN ps[i] /\ \A j \in (i+1)..Len(ps) : k \notin DOMAIN ps[j]

\* C26: within one generation a gate is scheduled once however many payloads
\* schedule it, the scheduled gates are activated one after the other, each
\* once; and the dict a gate is activated with has every key of every payload
\* that scheduled it, a key of several payloads with the value of the payload
\* passed on last
C26_MergedActivation ==
    \A p \in Flows :
        LET f == flow[p] IN
        /\ \A i, j \in 1..Len(f.next_gates) : i # j => f.next_gates[i][1] # f.next_gates[j][1]
        /\ f.pc = "activate" =>
              /\ Len(f.next_generation) = f.act - 1
              /\ \A i \in 1..(f.act - 1) : f.next_generation[i][1] = f.next_gates[i][1]
        /\ (f.input.gate # NoGate /\ f.input.gate \in DOMAIN f.sched) =>
              LET ps == f.sched[f.input.gate] IN
              \A i \in 1..Len(ps) : \A k \in DOMAIN ps[i] :
                  /\ k \in DOMAIN f.input.value
                  /\ (\E j \in 1..Len(ps) : j # i /\ k \in DOMAIN ps[j]) =>
                        f.input.value[k] = ps[LastWith(ps, k)][k]

\* what does hold: each scheduled gate once, and every key of every payload
\* that scheduled a gate is a key of the dict it is activated with
ScheduledOnceWithAllKeys ==
    \A p \in Flows :
        LET f == flow[p] IN
        /\ \A i, j \in 1..Len(f.next_gates) : i # j => f.next_gates[i][1] # f.next_gates[j][1]
        /\ f.pc = "activate" =>
              /\ Len(f.next_generation) = f.act - 1
              /\ \A i \in 1..(f.act - 1) : f.next_generation[i][1] = f.next_gates[i][1]
        /\ (f.input.gate # NoGate /\ f.input.gate \in DOMAIN f.sched) =>
              \A i \in 1..Len(f.sched[f.input.gate]) :
                  DOMAIN f.sched[f.input.gate][i] \subseteq DOMAIN f.input.value

\* C27: input isolation.  The dict a gate is activated with has only keys of
\* the payloads its in-neighbours passed to it: what another gate contributes
\* to a child of its own does not show in the input of a gate it has no edge to
C27_InputIsolation ==
    \A p \in Flows :
        LET f == flow[p] IN
        (f.input.gate # NoGate /\ f.input.gate \in DOMAIN f.sched) =>
            DOMAIN f.input.value \subseteq
                UNION {DOMAIN f.sched[f.input.gate][i] : i \in 1..Len(f.sched[f.input.gate])}

\* C29: an activation of a gate bound to a client sends once, whether or not
\* the gate's queue holds a request, and returns what the handler returned
\* with the fields of the transaction received written over it; an activation
\* of a gate without a client sends nothing and returns what the handler
\* returned, which is the dict inserted when the gate has no handler
C29_SendOnActivation ==
    \A p \in Flows :
        LET f == flow[p]
            g == f.input.gate
        IN  g # NoGate =>
            IF gate_client[g] # None
            THEN /\ f.sent.gate = g /\ f.sent.encoded # NoSend
                 /\ f.input.returned =>
                        f.outputs[g] = DictUpdate(f.input.handled, f.sent.received[2])
            ELSE /\ f.sent = NoSent
                 /\ f.input.returned =>
                        /\ f.outputs[g] = f.input.handled
                        /\ handlers[g] = NoHandler => f.outputs[g] = f.input.value

\* a bound gate whose queue was empty has been activated: it has sent a
\* transaction without requests and returned the input with the answer's fields
C29_Witness ==
    \E p \in Flows :
        LET f == flow[p] IN
        /\ f.input.gate = "A" /\ gate_client["A"] # None /\ handlers["A"] = NoHandler
        /\ f.sent.encoded = encoded("client", Transaction("client", [input |-> ListV(<<>>)]))
        /\ f.input.returned
        /\ f.input.value = Dict1("x", IntV(1))
        /\ DOMAIN f.outputs["A"] = {"x"} \cup DOMAIN ServerOk

\* the gates reached from the set reached along unconditional edges
RECURSIVE UnconditionalIn(_, _)
UnconditionalIn(reached, n) ==
    IF n = 0 THEN reached
    ELSE UnconditionalIn(
            reached \cup {c \in DOMAIN graph : \E k \in reached : Unconditional(k, c)}, n - 1)
\* key lies on a directed cycle made of unconditional edges only
OnUnconditionalCycle(key) ==
    key \in UnconditionalIn({c \in DOMAIN graph : Unconditional(key, c)}, Cardinality(DOMAIN graph))

\* the run of flow f loops: it has not returned, and when the gates scheduled
\* have all been activated the next generation is not empty
Loops(f) ==
    /\ f.pc # "returned"
    /\ InFlight(f) => is_busy
    /\ (f.pc = "activate" /\ f.act > Len(f.next_gates)) => f.next_generation # <<>>

\* C35 as claimed: a run whose start gate reaches, over edges of any kind, a
\* directed cycle made only of unconditional edges never has an empty next
\* generation and never returns, and is_busy stays true
C35_CycleNeverReturns ==
    \A p \in Flows :
        LET f == flow[p] IN
        (f.start \in DOMAIN graph /\ f.gens > 0
            /\ \E k \in Reachable(f.start) \cap DOMAIN graph : OnUnconditionalCycle(k))
        => Loops(f)

\* C35 as amended: the same for a start gate that reaches the cycle over
\* unconditional edges
C35_CycleEnteredNeverReturns ==
    \A p \in Flows :
        LET f == flow[p] IN
        (f.start \in DOMAIN graph /\ f.gens > 0
            /\ \E k \in UnconditionalIn({f.start}, Cardinality(DOMAIN graph)) :
                    OnUnconditionalCycle(k))
        => Loops(f)

\* a run started on a cycle of unconditional edges is in its fifth pass
C35_Witness ==
    \E p \in Flows :
        /\ flow[p].start \in DOMAIN graph /\ OnUnconditionalCycle(flow[p].start)
        /\ flow[p].gens >= 5 /\ flow[p].pc = "activate" /\ is_busy

Activations(f) == {g \in Gates : f.activations[g] > 0}

\* C7: run sets is_busy before the first gate is activated, it stays set during
\* every generation of the loop, and it is clear when run has returned.
C7_BusyDuringRun ==
    \A p \in Flows :
        /\ InFlight(flow[p]) => is_busy
        /\ Activations(flow[p]) # {} /\ flow[p].pc # "returned" => is_busy
        /\ flow[p].pc = "returned" => ~is_busy

\* a run of several generations has returned
C7_Witness ==
    \E p \in Flows : flow[p].pc = "returned" /\ Cardinality(Activations(flow[p])) >= 3

----------------------------------------------------------------------------
(* Properties of the busy flag *)

NetworkState == <<graph, conditional_edges, handlers, gate_client, requests,
                  is_busy, generation_count>>

C33_ReadThenSet ==
    [][\A p \in Flows :
        (flow[p].pc = "idle" /\ flow'[p].pc = "call_run" /\ flow'[p].via = "request")
        => ~is_busy /\ ~is_busy']_vars

\* both flows were handed a request, both read is_busy as false, and both are
\* in the loop of _resolve
C33_Witness ==
    \A p \in Flows :
        /\ flow[p].via = "request"
        /\ flow[p].pc \in {"schedule", "activate"}
        /\ flow[p].gens >= 1

\* no run is under way: every flow is idle or at the end of its call
NoRunUnderWay == \A p \in Flows : flow[p].pc \in {"idle", "replied", "raised"}

\* C34: a run that raises leaves is_busy true; and once it is true with no
\* run under way it stays true, every request _on_receive is handed is
\* answered b"BUSY", and no gate is activated any more
C34_BusyForever ==
    [][/\ \A p \in Flows : flow'[p].pc = "raised" => is_busy'
       /\ (is_busy /\ NoRunUnderWay) =>
             /\ is_busy' /\ NoRunUnderWay' /\ UNCHANGED <<requests, generation_count>>
             /\ \A p \in Flows :
                   (flow[p].pc = "idle" /\ flow'[p].pc # "idle") =>
                       /\ flow'[p].pc = "replied" /\ flow'[p].reply = BUSY
                       /\ Activations(flow'[p]) = {}]_vars

\* a request has been answered b"BUSY" though no run is under way: the flag
\* was left set by a run that raised
C34_Witness ==
    /\ is_busy /\ NoRunUnderWay
    /\ \E p \in Flows : flow[p].pc = "replied" /\ flow[p].reply = BUSY

----------------------------------------------------------------------------
(* Properties of transactions *)

\* C11: schema round trip.  For every transaction that conforms to its schema
\* (encoded() has returned its bytes), decoding those bytes under the same
\* schema gives a transaction equal to it.
C11_RoundTrip ==
    (tx.op = "decode_encoded") => (tx.exc = "none" /\ tx.out = DictV(tx.prev))

\* the shape a Transaction has: the key set of its schema, every non-null
\* value of the declared type
Shape(structure, fields) ==
    /\ DOMAIN fields = DOMAIN _structures(structure)
    /\ \A k \in DOMAIN fields :
          fields[k] = None \/ TypeOf(fields[k]) = _structures(structure)[k]

\* C12: decode validation.  An inbound mapping is accepted exactly when its key
\* set is the schema's and its non-null values have the declared types; then
\* the transaction decoded is that mapping; otherwise decode raises its
\* validation error (RuntimeError) and constructs no transaction.
C12_DecodeValidation ==
    (tx.op = "decode") =>
        IF Shape(tx.structure, tx.arg[2])
        THEN tx.exc = "none" /\ tx.alive /\ tx.fields = tx.arg[2]
        ELSE tx.exc = "RuntimeError" /\ ~tx.alive /\ IsRaise(tx.out)

\* decode has refused a mapping with a field too many, and one lacking a field
C12_Witness ==
    /\ tx.op = "decode" /\ tx.exc = "RuntimeError"
    /\ DOMAIN tx.arg[2] = DOMAIN _structures(tx.structure) \cup {"extra"}

\* C13: transaction shape.  A Transaction that exists has the shape of its
\* schema; the fields never assigned are null; an assignment with an unknown
\* key or a value of the wrong type raises and changes nothing, any other sets
\* that field only; and encoded() succeeds on it.
C13_ShapeInvariant ==
    /\ tx.alive => Shape(tx.structure, tx.fields)
    /\ (tx.alive /\ tx.op = "init") =>
          \A k \in DOMAIN tx.fields : k \notin DOMAIN tx.arg[2] => tx.fields[k] = None
    /\ (tx.op = "init" /\ ~tx.alive) => tx.exc = "ValueError"
    /\ (tx.op = "setitem") =>
          LET key == tx.arg[1]  value == tx.arg[2]
              ok == /\ key \in DOMAIN _structures(tx.structure)
                    /\ (value = None \/ TypeOf(value) = _structures(tx.structure)[key])
          IN  IF ok THEN tx.exc = "none" /\ tx.fields = [tx.prev EXCEPT ![key] = value]
              ELSE tx.exc = "ValueError" /\ tx.fields = tx.prev
    /\ (tx.op = "encoded") => (tx.exc = "none" /\ TypeOf(tx.out) = "bytes")

\* an assignment of a wrong type was refused on a transaction that had a field set
C13_Witness ==
    /\ tx.op = "setitem" /\ tx.exc = "ValueError"
    /\ tx.arg[1] \in DOMAIN tx.fields
    /\ \E k \in DOMAIN tx.fields : tx.fields[k] # None

----------------------------------------------------------------------------
(* Properties of the client table *)

\* a key of the graph lies on a directed cycle
GraphNext(g, S) == S \cup UNION {g[k] \cap DOMAIN g : k \in S}
RECURSIVE GraphReach(_, _, _)
GraphReach(g, S, n) == IF n = 0 THEN S ELSE GraphReach(g, GraphNext(g, S), n - 1)
HasCycle(g) ==
    \E k \in DOMAIN g : k \in GraphReach(g, g[k] \cap DOMAIN g, Cardinality(DOMAIN g))
NoDanglingEdges(g) == \A k \in DOMAIN g : g[k] \subseteq DOMAIN g

\* C23: on every graph whose edges all end at nodes of the graph, is_acyclic
\* returns, and returns False exactly when the graph has a directed cycle
C23_IsAcyclicExact ==
    (call.op = "is_acyclic" /\ NoDanglingEdges(graph)) =>
        /\ call.exc = "none"
        /\ call.out = BoolV(~HasCycle(graph))

\* what is_acyclic does do: when it returns, its answer is right
IsAcyclicRightWhenReturns ==
    (call.op = "is_acyclic" /\ NoDanglingEdges(graph) /\ call.exc = "none") =>
        call.out = BoolV(~HasCycle(graph))

\* C40: remove_gate(k) takes k and its successor set out of the graph and
\* leaves the successor set of every other node as it was, edges to k
\* included; for a key that is not in the graph it changes nothing and does
\* not fail
C40_RemoveNodeOnly ==
    call.op = "remove_gate" =>
        LET key == call.args[1]
            before == call.before.graph
        IN  /\ call.exc = "none"
            /\ DOMAIN graph = DOMAIN before \ {key}
            /\ \A k \in DOMAIN graph : graph[k] = before[k]
            /\ key \notin DOMAIN before => graph = before

\* a gate was removed and an edge to it is still in the graph
C40_Witness ==
    /\ call.op = "remove_gate"
    /\ call.args[1] \in DOMAIN call.before.graph
    /\ call.args[1] \notin DOMAIN graph
    /\ \E k \in DOMAIN graph : call.args[1] \in graph[k]

\* a key that was not in the graph was removed
RemovedAbsentKey ==
    /\ call.op = "remove_gate"
    /\ call.args[1] \notin DOMAIN call.before.graph

\* C39: the enumeration of the paths from a key comes to an end on every
\* graph: get_complete_paths(key) never runs into the recursion limit
C39_PathsTerminate ==
    call.op = "get_complete_paths" => call.exc # "RecursionError"

\* what the enumeration does do: it comes to an end when every cycle that can
\* be reached from the key passes through the key
PathsTerminateWithoutStrayCycle ==
    (call.op = "get_complete_paths" /\ call.exc = "RecursionError") =>
        \E k \in GraphReach(graph, graph[call.args[1]], Cardinality(DOMAIN graph)) \ {call.args[1]} :
            k \in GraphReach([n \in DOMAIN graph \ {call.args[1]} |-> graph[n] \ {call.args[1]}],
                             graph[k] \ {call.args[1]}, Cardinality(DOMAIN graph))

\* the value at the end of a route of keys through nested dicts, or Absent
\* where a segment of the route is not there
Absent == <<"absent", 0>>
RECURSIVE Nested(_, _)
Nested(route, value) ==
    IF route = <<>> THEN value
    ELSE IF TypeOf(value) = "dict" /\ Head(route) \in DOMAIN value[2]
    THEN Nested(Tail(route), value[2][Head(route)])
    ELSE Absent

\* C28: get_nested returns the nested value when every segment of the route is
\* present, and None, raising nothing, when a segment is absent
C28_GetNestedTotal ==
    call.op = "get_nested" =>
        LET value == Nested(call.args[1], DictV(call.args[2])) IN
        /\ call.exc = "none"
        /\ call.out = IF value = Absent THEN None ELSE value

\* what get_nested does do: when it returns, it returns that value
GetNestedRightWhenReturns ==
    (call.op = "get_nested" /\ call.exc = "none") =>
        LET value == Nested(call.args[1], DictV(call.args[2])) IN
        call.out = IF value = Absent THEN None ELSE value

\* C14: define_client with a label that is defined, or with a type and
\* address that a defined client has, fails and leaves the client table and
\* the clients bound to the gates as they were.
C14_DefineClientUnique ==
    (/\ call.op = "define_client"
     /\ \/ call.args[1] \in DOMAIN call.before.clients
        \/ client_exists(call.before.clients, call.args[4], call.args[2], call.args[3]))
    => /\ call.exc # "none"
       /\ clients = call.before.clients
       /\ gate_client = call.before.gate_client

\* C15: delete_client of a defined label completes without error, removes
\* the label and leaves no gate bound to the client deleted.
C15_DeleteClientClears ==
    (call.op = "delete_client" /\ call.args[1] \in DOMAIN call.before.clients)
    => /\ call.exc = "none"
       /\ call.args[1] \notin DOMAIN clients
       /\ \A g \in DOMAIN gate_client :
            gate_client[g] # call.before.clients[call.args[1]]

----------------------------------------------------------------------------
(* Properties of the calls that change gates and edges *)

\* C16: add_edge from a gate to itself, with or without a condition or a
\* fallback, fails and leaves the successor sets and the conditional-edge
\* table as they were.
C16_SelfLoopAtomic ==
    (call.op = "add_edge" /\ call.args[1] = call.args[2])
    => /\ call.exc # "none"
       /\ graph = call.before.graph
       /\ conditional_edges = call.before.conditional_edges

\* C17: after any sequence of add_gate, remove_gate, add_edge and
\* remove_edge, every key of the conditional-edge table is an edge of the
\* graph.
C17_TableConsistent ==
    \A e \in DOMAIN conditional_edges :
        e[1] \in DOMAIN graph /\ e[2] \in graph[e[1]]

----------------------------------------------------------------------------
(* Properties of the driver's routines *)

\* C18: create_routine with entity "component" and an executor that is not a
\* registered component fails and leaves the routines as they were; any other
\* create_routine stores (entity, executor, operation, kwargs, interval) under
\* the name, in place of a routine of that name, and leaves the others.
C18_CreateRoutine ==
    call.op = "create_routine" =>
        LET data == call.args
            name == data.name[2]
        IN  IF data.entity = StrV("component") /\ data.executor[2] \notin Keys(components)
            THEN /\ call.exc # "none"
                 /\ routines = call.before.routines
            ELSE /\ call.exc = "none"
                 /\ Keys(routines) = Keys(call.before.routines) \cup {name}
                 /\ Len(routines) = Cardinality(Keys(routines))
                 /\ Lookup(routines, name) = <<data.entity, data.executor, data.operation,
                                               data.kwargs, data.interval>>
                 /\ \A k \in Keys(call.before.routines) \ {name} :
                      Lookup(routines, k) = Lookup(call.before.routines, k)

\* a create_routine for a registered component has replaced the routine of
\* its name by another
C18_Witness ==
    /\ call.op = "create_routine"
    /\ call.exc = "none"
    /\ call.args.entity = StrV("component")
    /\ call.args.name[2] \in Keys(call.before.routines)
    /\ Lookup(routines, call.args.name[2]) # Lookup(call.before.routines, call.args.name[2])

C20_FiredEveryPeriod ==
    (scheduler.pc = "sleep" /\ scheduler.every_tick) =>
        \A i \in 1..Len(routines) :
            LET key == routines[i][1]
                time_interval == routines[i][2][5]
            IN  (key \in DOMAIN scheduler.since /\ scheduler.since[key][2] = time_interval)
                => scheduler.fired[key] >=
                      (scheduler.elapsed \div Ticks(time_interval))
                      - (scheduler.since[key][1] \div Ticks(time_interval))

\* the executor named by a routine entry <<key, value>>
ExecutorOf(entry) == entry[2][2][2]

\* C36: the routines thread and the request flow share components and
\* routines without mutual exclusion.  While the thread holds an entry it has
\* read and is about to fire, a request that deletes the entry's executor can
\* be served; the routine is then fired against a component already deleted
\* (the witness)
C36_NoMutualExclusion ==
    (scheduler.pc = "fire" /\ ExecutorOf(scheduler.entry) \in Keys(components)) =>
        ENABLED (RequestServed /\ ExecutorOf(scheduler.entry) \notin Keys(components'))

\* the thread read an entry whose executor was a component, the component was
\* deleted before the entry was fired, and the firing raised
C36_Witness ==
    /\ scheduler.pc = "dead"
    /\ scheduler.died.entry # <<>>
    /\ scheduler.check.key = scheduler.died.entry[1]
    /\ scheduler.check.present
    /\ ExecutorOf(scheduler.died.entry) \notin Keys(components)
    /\ scheduler.died.exc = "RuntimeError"

Firing ==
    _request_handlers(Driver, "exe",
                      [entity |-> scheduler.entry[2][1], name |-> scheduler.entry[2][2],
                       operation |-> scheduler.entry[2][3], kwargs |-> scheduler.entry[2][4]],
                      FALSE)

\* C38: an exception raised by the firing of a routine ends the routines
\* thread; after that nothing in the thread changes, so no routine is fired
\* again, while requests are still served
C38_FailureEndsScheduler ==
    [][/\ (scheduler.pc = "fire" /\ scheduler'.pc # "fire" /\ Firing.exc # "none") =>
             /\ scheduler'.pc = "dead"
             /\ scheduler'.fired = scheduler.fired
       /\ scheduler.pc = "dead" =>
             /\ scheduler' = scheduler
             /\ ENABLED RequestServedFailing]_vars

\* the thread has ended on a routine whose operation the component does not
\* have
C38_Witness ==
    /\ scheduler.pc = "dead"
    /\ scheduler.died.entry # <<>>
    /\ scheduler.died.entry[2][3] = StrV("explode")
    /\ ExecutorOf(scheduler.died.entry) \in Keys(components)
    /\ scheduler.died.exc = "RuntimeError"

\* the thread has ended on a routine whose executor is not registered
EndedOnMissingExecutor ==
    /\ scheduler.pc = "dead"
    /\ scheduler.died.entry # <<>>
    /\ scheduler.died.entry[2][1] = StrV("component")
    /\ ExecutorOf(scheduler.died.entry) \notin Keys(components)
    /\ scheduler.died.exc = "RuntimeError"

\* a routine was fired, and the thread then ended on another routine
FiredThenEnded ==
    /\ scheduler.pc = "dead"
    /\ scheduler.died.entry # <<>>
    /\ \E k \in DOMAIN scheduler.fired : scheduler.fired[k] > 0

\* the thread has ended on a routine whose entity has no exe handler
EndedOnUnknownEntity ==
    /\ scheduler.pc = "dead"
    /\ scheduler.died.entry # <<>>
    /\ scheduler.died.entry[2][1] = StrV("routine")
    /\ scheduler.died.exc = "KeyError"

----------------------------------------------------------------------------
(* Properties of the driver's dispatch *)

\* the requests of the batch in the bytes last handed to the driver, when they
\* decode into a client transaction
DecodedBatch ==
    LET decoded == decode_transaction("client", driver_reply.batch) IN
    IF driver_reply.batch = None \/ IsRaise(decoded) \/ TypeOf(decoded[2].input) # "list"
    THEN <<>>
    ELSE decoded[2].input[2]

\* C8: driver dispatch errors are contained.  For every decoded batch that holds
\* a request with an unknown method, an unknown entity or an unknown operation,
\* _on_receive does not raise and returns an encoded server transaction whose
\* error is a string.
C8_DispatchContained ==
    (\E i \in 1..Len(DecodedBatch) :
        DecodedBatch[i] \in {UnknownMethod, UnknownOperation} \cup UnknownEntity)
    => /\ driver_reply.exc = "none"
       /\ TypeOf(driver_reply.reply) = "bytes"
       /\ is_valid_transaction("server", driver_reply.reply[2][2])
       /\ TypeOf(driver_reply.reply[2][2].error) = "str"

\* the requests of a batch made one after the other on the driver d, up to the
\* first that fails: the driver then, and whether one failed
RECURSIVE OneByOne(_, _, _)
OneByOne(batch, d, level) ==
    IF batch = <<>> THEN [driver |-> d, failed |-> FALSE]
    ELSE LET r == _request_handlers(d, Head(batch)[2][1][2], Head(batch)[2][2][2], level) IN
         IF r.exc # "none" THEN [driver |-> d, failed |-> TRUE]
         ELSE OneByOne(Tail(batch), r.driver, level)

\* C30: the requests of a batch are applied in the order of the list; when one
\* fails, what the requests before it did remains, the requests after it are
\* not applied, and the reply has the response None and an error that is not
\* None
C30_BatchSemantics ==
    DecodedBatch # <<>> =>
        LET seq == OneByOne(DecodedBatch, driver_reply.before, driver_reply.level) IN
        /\ Driver = seq.driver
        /\ seq.failed =>
              /\ driver_reply.exc = "none"
              /\ TypeOf(driver_reply.reply) = "bytes"
              /\ driver_reply.reply[2][2].response = None
              /\ driver_reply.reply[2][2].error # None

\* what does hold: the driver is left as the requests before the failing one
\* made it, and there is either such a reply or none at all
BatchPrefixApplied ==
    DecodedBatch # <<>> =>
        LET seq == OneByOne(DecodedBatch, driver_reply.before, driver_reply.level) IN
        /\ Driver = seq.driver
        /\ (seq.failed /\ driver_reply.exc = "none") =>
              /\ TypeOf(driver_reply.reply) = "bytes"
              /\ driver_reply.reply[2][2].response = None
              /\ driver_reply.reply[2][2].error # None
        /\ seq.failed <=> (driver_reply.exc # "none" \/ driver_reply.reply[2][2].error # None)

\* the results of the get requests of a batch made on the driver d, each
\* written over those before it
RECURSIVE GetMerge(_, _, _, _)
GetMerge(batch, d, level, merged) ==
    IF batch = <<>> THEN merged
    ELSE LET method == Head(batch)[2][1][2]
             r == _request_handlers(d, method, Head(batch)[2][2][2], level)
         IN  IF r.exc # "none" THEN merged
             ELSE GetMerge(Tail(batch), r.driver, level,
                           IF method = "get" THEN DictUpdate(merged, r.result[2]) ELSE merged)

\* the reply to a batch that was handled without error
Handled ==
    /\ driver_reply.batch # None
    /\ driver_reply.exc = "none"
    /\ TypeOf(driver_reply.reply) = "bytes"
    /\ driver_reply.reply[2][2].error = None

\* C31: for a batch handled without error the response is the merge, in the
\* order of the requests, of the results of its get requests: an empty map when
\* there is none, and nothing from create, delete and exe requests
C31_ResponseIsGetMerge ==
    Handled =>
        driver_reply.reply[2][2].response =
            DictV(GetMerge(DecodedBatch, driver_reply.before, driver_reply.level, EmptyDict))

\* a batch of two get requests for different fields has been answered with the
\* fields of both
C31_Witness ==
    /\ Handled
    /\ DecodedBatch = <<Get(<<StrV("states")>>), Get(<<StrV("components"), StrV("routines")>>)>>
    /\ Len(driver_reply.before.components) > 0
    /\ DOMAIN driver_reply.reply[2][2].response[2] = {"states", "components", "routines"}

----------------------------------------------------------------------------
(* Properties of DriverInterface.send *)

Undecodable(rx) == ~IsRaise(rx) /\ IsRaise(decode_transaction("server", rx))

\* C9: a decode failure is contained.  When the bytes the connection returned do
\* not decode into a valid server transaction, send does not raise and returns
\* the server transaction whose error is UnableToSend and whose other fields
\* are None.
C9_DecodeFailureContained ==
    \A p \in Flows :
        LET s == flow[p].sent IN
        (s.gate # NoGate /\ Undecodable(s.rx))
        => /\ s.exc = "none"
           /\ s.received = DictV([received_time |-> None, sent_time |-> None,
                                  response |-> None, error |-> UnableToSend])

\* C10: after every call of send, whatever the connection did, the queue of the
\* gate that sent is empty.
C10_QueueCleared ==
    \A p \in Flows :
        flow[p].sent.gate # NoGate => requests[flow[p].sent.gate] = <<>>

====
